---- MODULE Spec2Model ----
(***************************************************************************)
(* Model of the opess chess core: board model, move calculator, legal-move *)
(* filter, board mutator, FEN codec and algebraic codec.                   *)
(*                                                                         *)
(* Text is modelled as a sequence of one-character strings, so that the    *)
(* encoders and decoders are computed character by character.              *)
(* A Position (square) is the pair <<file, rank>> of its two characters,   *)
(* which is also its PositionStr form.                                     *)
(***************************************************************************)
EXTENDS Integers, Sequences, FiniteSets, TLC

\* ------------------------------------------------------------------ bounds
\* Longest game (number of applied moves) explored from a loaded position.
MaxPly == 2
\* The same, for games loaded from the full starting position, whose
\* branching is an order of magnitude larger.
OpeningPly == 1
\* Requests that are answered without applying a move (a rejected
\* calculateMove, a calculateMoveFromAlgebraic) are made on Positions up to
\* this many moves into a game.
ProbePly == 0
\* Longest movetext, in move tokens, cut from a recorded game and given to
\* parsePGNMoves.
MaxTokens == 4
\* Longest last rank, in characters, of the FEN texts typed into the FEN
\* input and given to parseFen.
MaxRowLen == 2

\* ------------------------------------------------------------- board model
BOARD_RANKS == <<"1", "2", "3", "4", "5", "6", "7", "8">>
BOARD_FILES == <<"a", "b", "c", "d", "e", "f", "g", "h">>

FileSet == {BOARD_FILES[i] : i \in 1..8}
RankSet == {BOARD_RANKS[i] : i \in 1..8}

\* JS `undefined` for optional string-valued slots (Map.get miss, castling,
\* promotion) and `null` for the optional en-passant Position.
Undefined == "undefined"
Null == <<>>

InitialRank == [white |-> "1", black |-> "8"]
PromotionRank == [white |-> "8", black |-> "1"]
EnPassantRank == [white |-> "3", black |-> "6"]

PlayerColor == [WHITE |-> "white", BLACK |-> "black"]

\* Position.make / Position.fromStr: all representable squares.
Position == {<<f, r>> : f \in FileSet, r \in RankSet}

\* BOARD_FILES.indexOf / BOARD_RANKS.indexOf (0-based, -1 when absent).
FileIndexOf == [c \in FileSet |-> (CHOOSE i \in 1..8 : BOARD_FILES[i] = c) - 1]
RankIndexOf == [c \in RankSet |-> (CHOOSE i \in 1..8 : BOARD_RANKS[i] = c) - 1]

fileIndex(pos) == FileIndexOf[pos[1]]
rankIndex(pos) == RankIndexOf[pos[2]]

isBoardFile(c) == c \in FileSet
isBoardRank(c) == c \in RankSet

isPositionStr(s) == Len(s) = 2 /\ isBoardFile(s[1]) /\ isBoardRank(s[2])

prevBoardRank(rank) ==
    IF RankIndexOf[rank] > 0 THEN BOARD_RANKS[RankIndexOf[rank]] ELSE Undefined

nextBoardRank(rank) ==
    IF RankIndexOf[rank] < 7 THEN BOARD_RANKS[RankIndexOf[rank] + 2] ELSE Undefined

Abs(n) == IF n < 0 THEN -n ELSE n

\* ------------------------------------------------------------------ pieces
WhitePieces == {"P", "N", "B", "R", "Q", "K"}
BlackPieces == {"p", "n", "b", "r", "q", "k"}
VALID_PIECES == WhitePieces \cup BlackPieces

ToLower == [c \in WhitePieces |->
              CASE c = "P" -> "p" [] c = "N" -> "n" [] c = "B" -> "b"
                [] c = "R" -> "r" [] c = "Q" -> "q" [] c = "K" -> "k"]
ToUpper == [c \in VALID_PIECES |->
              CASE c \in {"P", "p"} -> "P" [] c \in {"N", "n"} -> "N"
                [] c \in {"B", "b"} -> "B" [] c \in {"R", "r"} -> "R"
                [] c \in {"Q", "q"} -> "Q" [] c \in {"K", "k"} -> "K"]

isPiece(c) == c \in VALID_PIECES
isPawn(p) == p = "p" \/ p = "P"
isWhite(p) == p \in WhitePieces
getPieceColor(p) == IF p \in BlackPieces THEN PlayerColor.BLACK ELSE PlayerColor.WHITE

\* BoardMap<PieceId>: total function, Undefined where the Map has no entry.
EmptyPieces == [s \in Position |-> Undefined]
has(pieces, pos) == pieces[pos] # Undefined

\* BoardMap.findPositionFor: the first square (in Map order) holding `value`.
\* The positions modelled hold at most one king of each colour, so the
\* Map's insertion order does not decide the answer.
findPositionFor(pieces, value) ==
    IF \E s \in Position : pieces[s] = value
    THEN CHOOSE s \in Position : pieces[s] = value
    ELSE Null

\* ------------------------------------------------------------------ results
\* Either<T, E> return values, and thrown Errors.
Ok(m) == [kind |-> "ok", move |-> m]
Err(e) == [kind |-> "error", error |-> e]
Throw(msg) == [kind |-> "throw", message |-> msg]

NotYourTurn == [type |-> "notYourTurn"]
CaptureOwnPiece == [type |-> "captureOwnPiece"]
InvalidPieceMove(piece) == [type |-> "invalidPieceMove", piece |-> piece]
InvalidAlgebraicNotation(text) == [type |-> "invalidAlgebraicNotation", algebraic |-> text]
AmbiguousAlgebraicNotation(text, piece) ==
    [type |-> "ambiguousAlgebraicNotation", algebraic |-> text, piece |-> piece]

\* ------------------------------------------------- algebraic encoder (Move)
moveToAlgebraic(move) ==
    IF move.castling # Undefined
    THEN (IF move.castling = "king-side" THEN <<"O", "-", "O">>
                                         ELSE <<"O", "-", "O", "-", "O">>)
    ELSE (IF ~isPawn(move.piece) THEN <<move.piece>> ELSE <<>>)
         \o (IF move.isCapture /\ isPawn(move.piece) THEN <<move.from[1]>> ELSE <<>>)
         \o (IF move.isCapture THEN <<"x">> ELSE <<>>)
         \o move.to
         \o (IF move.promotion # Undefined THEN <<"=", ToUpper[move.promotion]>> ELSE <<>>)

\* ------------------------------------------------------------- shape rules
\* getPositionsBetween, for from # to (calculateMove never asks it for
\* from = to: that request is answered captureOwnPiece first): the squares
\* the horizontal, vertical or diagonal loop pushes, none for any other pair.
Sign(n) == IF n > 0 THEN 1 ELSE IF n < 0 THEN -1 ELSE 0

squaresBetween(ff, fr, tf, tr) ==
    IF fr = tr \/ ff = tf \/ Abs(ff - tf) = Abs(fr - tr)
    THEN {<<BOARD_FILES[ff + k * Sign(tf - ff) + 1],
            BOARD_RANKS[fr + k * Sign(tr - fr) + 1]>>
          : k \in 1..((IF fr = tr THEN Abs(ff - tf) ELSE Abs(fr - tr)) - 1)}
    ELSE {}

getPositionsBetween(from, to) ==
    squaresBetween(fileIndex(from), rankIndex(from), fileIndex(to), rankIndex(to))

isPathClear(from, to, pieces) ==
    \A pos \in getPositionsBetween(from, to) : ~has(pieces, pos)

\* A variant that allows the double step from every rank.
isValidPawnMove_AnyRank(from, to, piece, pieces, enPassantTarget) ==
    LET direction == IF isWhite(piece) THEN 1 ELSE -1
        dRank == rankIndex(to) - rankIndex(from)
    IN IF from[1] = to[1]
       THEN IF dRank = direction
            THEN ~has(pieces, to)
            ELSE IF dRank = 2 * direction
                 THEN ~has(pieces, to) /\ isPathClear(from, to, pieces)
                 ELSE FALSE
       ELSE IF Abs(fileIndex(to) - fileIndex(from)) = 1 /\ dRank = direction
            THEN has(pieces, to) \/ enPassantTarget = to
            ELSE FALSE

isValidPawnMove(from, to, piece, pieces, enPassantTarget) ==
    LET direction == IF isWhite(piece) THEN 1 ELSE -1
        startRank == IF isWhite(piece) THEN "2" ELSE "7"
        dRank == rankIndex(to) - rankIndex(from)
    IN IF from[1] = to[1]
       THEN IF dRank = direction
            THEN ~has(pieces, to)
            ELSE IF from[2] = startRank /\ dRank = 2 * direction
                 THEN ~has(pieces, to) /\ isPathClear(from, to, pieces)
                 ELSE FALSE
       ELSE IF Abs(fileIndex(to) - fileIndex(from)) = 1 /\ dRank = direction
            THEN has(pieces, to) \/ enPassantTarget = to
            ELSE FALSE

\* A variant that knows only one of the two knight shapes.
isValidKnightMove_OneShape(from, to) ==
    /\ Abs(fileIndex(to) - fileIndex(from)) = 2
    /\ Abs(rankIndex(to) - rankIndex(from)) = 1

isValidKnightMove(from, to) ==
    LET fileDiff == Abs(fileIndex(to) - fileIndex(from))
        rankDiff == Abs(rankIndex(to) - rankIndex(from))
    IN (fileDiff = 2 /\ rankDiff = 1) \/ (fileDiff = 1 /\ rankDiff = 2)

isValidBishopMove(from, to, pieces) ==
    /\ Abs(fileIndex(to) - fileIndex(from)) = Abs(rankIndex(to) - rankIndex(from))
    /\ isPathClear(from, to, pieces)

isValidRookMove(from, to, pieces) ==
    /\ (from[1] = to[1] \/ from[2] = to[2])
    /\ isPathClear(from, to, pieces)

isValidQueenMove(from, to, pieces) ==
    isValidBishopMove(from, to, pieces) \/ isValidRookMove(from, to, pieces)

\* Returns [isValid, castling].
isValidKingMove(from, to, piece, pieces, castling) ==
    LET fileDiff == Abs(fileIndex(to) - fileIndex(from))
        rankDiff == Abs(rankIndex(to) - rankIndex(from))
        white == isWhite(piece)
    IN IF fileDiff <= 1 /\ rankDiff <= 1
       THEN [isValid |-> TRUE, castling |-> Undefined]
       ELSE IF /\ rankDiff = 0
               /\ from[2] = (IF white THEN InitialRank.white ELSE InitialRank.black)
               /\ from[1] = "e"
               /\ isPathClear(from, to, pieces)
            THEN IF /\ to[1] = "g"
                    /\ ((white /\ castling.whiteKingSide)
                        \/ (~white /\ castling.blackKingSide))
                 THEN [isValid |-> TRUE, castling |-> "king-side"]
                 ELSE IF /\ to[1] = "c"
                         /\ ((white /\ castling.whiteQueenSide)
                             \/ (~white /\ castling.blackQueenSide))
                      THEN [isValid |-> TRUE, castling |-> "queen-side"]
                      ELSE [isValid |-> FALSE, castling |-> Undefined]
            ELSE [isValid |-> FALSE, castling |-> Undefined]

\* The switch on the piece type inside calculateMove:
\* [isValid, castling, isEnPassantCapture].
\* A variant that never tells an en-passant capture from a pawn move.
pawnVerdict_NoEnPassant(v, isEnPassant) ==
    [isValid |-> v, castling |-> Undefined, isEnPassantCapture |-> FALSE]

pawnVerdict(v, isEnPassant) ==
    [isValid |-> v, castling |-> Undefined, isEnPassantCapture |-> v /\ isEnPassant]

otherVerdict(v) ==
    [isValid |-> v, castling |-> Undefined, isEnPassantCapture |-> FALSE]

kingVerdict(r) ==
    [isValid |-> r.isValid, castling |-> r.castling, isEnPassantCapture |-> FALSE]

validateByPiece(board, from, to, piece) ==
    CASE piece \in {"p", "P"} ->
            pawnVerdict(isValidPawnMove(from, to, piece, board.pieces,
                                        board.enPassantTarget),
                        board.enPassantTarget = to)
      [] piece \in {"n", "N"} -> otherVerdict(isValidKnightMove(from, to))
      [] piece \in {"b", "B"} -> otherVerdict(isValidBishopMove(from, to, board.pieces))
      [] piece \in {"r", "R"} -> otherVerdict(isValidRookMove(from, to, board.pieces))
      [] piece \in {"q", "Q"} -> otherVerdict(isValidQueenMove(from, to, board.pieces))
      [] piece \in {"k", "K"} ->
            kingVerdict(isValidKingMove(from, to, piece, board.pieces, board.canCastle))

\* A variant that lets every destination through.
isAllowed_Always(board, from, to) == TRUE

\* The legal-destination lookup of calculateMove (allowedMoves.get(from)
\* ?.includes(to)).
isAllowed(board, from, to) ==
    from \in DOMAIN board.allowedMoves /\ to \in board.allowedMoves[from]

\* --------------------------------------------------------- move calculator
\* The end of calculateMove, once the piece rule has answered `v`: the
\* error, or the Move with its promotion and its algebraic text.
\* A variant that takes the promotion choice for every move.
moveOf_ChoiceAlways(from, to, piece, targetPiece, promotionPiece, v) ==
    LET promotion ==
            IF piece = "p" /\ to[2] = PromotionRank.black THEN "q"
            ELSE IF piece = "P" /\ to[2] = PromotionRank.white THEN "Q"
            ELSE Undefined
        move == [from |-> from, to |-> to, piece |-> piece,
                 turn |-> getPieceColor(piece),
                 algebraic |-> <<>>,
                 isCapture |-> (targetPiece # Undefined) \/ v.isEnPassantCapture,
                 castling |-> v.castling,
                 isEnPassantCapture |-> v.isEnPassantCapture,
                 promotion |-> IF promotionPiece # Undefined
                               THEN promotionPiece ELSE promotion]
    IN IF ~v.isValid THEN Err(InvalidPieceMove(piece))
       ELSE Ok([move EXCEPT !.algebraic = moveToAlgebraic(move)])

moveOf(from, to, piece, targetPiece, promotionPiece, v) ==
    LET promotion ==
            IF piece = "p" /\ to[2] = PromotionRank.black THEN "q"
            ELSE IF piece = "P" /\ to[2] = PromotionRank.white THEN "Q"
            ELSE Undefined
        move == [from |-> from, to |-> to, piece |-> piece,
                 turn |-> getPieceColor(piece),
                 algebraic |-> <<>>,
                 isCapture |-> (targetPiece # Undefined) \/ v.isEnPassantCapture,
                 castling |-> v.castling,
                 isEnPassantCapture |-> v.isEnPassantCapture,
                 promotion |-> IF promotion = Undefined THEN Undefined
                               ELSE IF promotionPiece # Undefined
                                    THEN promotionPiece ELSE promotion]
    IN IF ~v.isValid THEN Err(InvalidPieceMove(piece))
       ELSE Ok([move EXCEPT !.algebraic = moveToAlgebraic(move)])

\* A variant that consults the legal-destination list before it looks at
\* the piece on `to`.
calculateMove_FilterFirst(board, from, to, promotionPiece, ignoreAllowed) ==
    LET piece == board.pieces[from]
        targetPiece == board.pieces[to]
    IN IF piece = Undefined THEN Throw("No piece at position")
       ELSE IF getPieceColor(piece) # board.turnColor THEN Err(NotYourTurn)
       ELSE IF ~ignoreAllowed /\ ~isAllowed(board, from, to)
            THEN Err(InvalidPieceMove(piece))
       ELSE IF targetPiece # Undefined
                 /\ getPieceColor(piece) = getPieceColor(targetPiece)
            THEN Err(CaptureOwnPiece)
       ELSE moveOf(from, to, piece, targetPiece, promotionPiece,
                   validateByPiece(board, from, to, piece))

calculateMove(board, from, to, promotionPiece, ignoreAllowed) ==
    LET piece == board.pieces[from]
        targetPiece == board.pieces[to]
    IN IF piece = Undefined THEN Throw("No piece at position")
       ELSE IF getPieceColor(piece) # board.turnColor THEN Err(NotYourTurn)
       ELSE IF targetPiece # Undefined
                 /\ getPieceColor(piece) = getPieceColor(targetPiece)
            THEN Err(CaptureOwnPiece)
       ELSE IF ~ignoreAllowed /\ ~isAllowed(board, from, to)
            THEN Err(InvalidPieceMove(piece))
       ELSE moveOf(from, to, piece, targetPiece, promotionPiece,
                   validateByPiece(board, from, to, piece))

\* ------------------------------------------------------- legal move filter
\* The trial board of fillAllowedMoves: the raw relocation of `move`.
trialPieces(board, from, to, move) ==
    LET afterFrom == [board.pieces EXCEPT ![from] = Undefined]
        afterEp == IF move.isEnPassantCapture
                   THEN [afterFrom EXCEPT ![<<to[1], from[2]>>] = Undefined]
                   ELSE afterFrom
    IN [afterEp EXCEPT ![to] = IF move.promotion # Undefined
                               THEN move.promotion ELSE move.piece]

\* A variant whose colour test is inverted: it scans the mover's own pieces.
isKingInCheck_OwnPieces(board, tempPieces, kingPos) ==
    \E opFrom \in Position :
        /\ tempPieces[opFrom] # Undefined
        /\ getPieceColor(tempPieces[opFrom]) = board.turnColor
        /\ calculateMove([board EXCEPT !.pieces = tempPieces,
                                       !.allowedMoves = <<>>,
                                       !.turnColor = getPieceColor(tempPieces[opFrom])],
                         opFrom, kingPos, Undefined, TRUE).kind = "ok"

\* The scan over the opposing pieces of the trial board.
isKingInCheck(board, tempPieces, kingPos) ==
    \E opFrom \in Position :
        /\ tempPieces[opFrom] # Undefined
        /\ getPieceColor(tempPieces[opFrom]) # board.turnColor
        /\ calculateMove([board EXCEPT !.pieces = tempPieces,
                                       !.allowedMoves = <<>>,
                                       !.turnColor = getPieceColor(tempPieces[opFrom])],
                         opFrom, kingPos, Undefined, TRUE).kind = "ok"

\* The king of the side to move is on the trial board and no opposing piece
\* reaches it.
isKingSafe(board, tempPieces, kingPos) ==
    kingPos # Null /\ ~isKingInCheck(board, tempPieces, kingPos)

kingSafeOn(board, tempPieces) ==
    isKingSafe(board, tempPieces,
               findPositionFor(tempPieces,
                               IF board.turnColor = PlayerColor.WHITE THEN "K" ELSE "k"))

\* One (from, to) iteration of fillAllowedMoves, `r` being what
\* calculateMove(board, from, to, undefined, true) returned: is `to` pushed?
isPushed(board, from, to, r) ==
    r.kind = "ok" /\ kingSafeOn(board, trialPieces(board, from, to, r.move))

isPossibleMove(board, from, to) ==
    isPushed(board, from, to, calculateMove(board, from, to, Undefined, TRUE))

\* The list fillAllowedMoves collects for one origin.
possibleMoves(board, from) == {to \in Position : isPossibleMove(board, from, to)}

\* A variant that stores the list of every origin, the empty lists too.
nonEmptyLists_AllOrigins(all) ==
    IF all = all THEN [from \in Position |-> all[from]] ELSE <<>>

\* allowedMoves.set(from, positions) for the non-empty lists only.  The
\* comparison settles the lists once, before they are read.
nonEmptyLists(all) ==
    IF all = all THEN [from \in {s \in Position : all[s] # {}} |-> all[from]]
    ELSE <<>>

\* The mapping fillAllowedMoves stores: origin -> destinations, no entry for
\* an origin without destinations.
possibleMovesMap(board) ==
    nonEmptyLists([from \in Position |->
                      IF /\ board.pieces[from] # Undefined
                         /\ getPieceColor(board.pieces[from]) = board.turnColor
                      THEN possibleMoves(board, from) ELSE {}])

\* The objects of `board` that the trial board tempBoard of fillAllowedMoves
\* holds as its own: none.  tempBoard = {...board, pieces:
\* board.pieces.clone(), allowedMoves: new BoardMap()}, and clone() builds a
\* new Map; the writes of a trial are tempBoard.pieces.delete / set.
tempBoardShares == {}

\* The piece map of the Position being filled once the trials are over: the
\* writes of a trial stay on it only if tempBoard holds that very map.
piecesAfterTrials(board, allowed) ==
    IF "pieces" \in tempBoardShares /\ DOMAIN allowed # {}
    THEN LET from == CHOOSE s \in DOMAIN allowed : TRUE
             to == CHOOSE t \in allowed[from] : TRUE
         IN trialPieces(board, from, to,
                        calculateMove(board, from, to, Undefined, TRUE).move)
    ELSE board.pieces

\* board.allowedMoves.set(from, positions) for every collected list.
filled(board, allowed) ==
    [board EXCEPT !.allowedMoves = allowed,
                  !.pieces = piecesAfterTrials(board, allowed)]

fillAllowedMoves(board) ==
    IF DOMAIN board.allowedMoves # {}
    THEN Throw("Allowed moves already calculated")
    ELSE [kind |-> "ok", board |-> filled(board, possibleMovesMap(board))]

\* A variant that forgets the rooks.
updateCastlingRights_KingOnly(castling, move) ==
    CASE move.piece = "k" ->
            [castling EXCEPT !.blackKingSide = FALSE, !.blackQueenSide = FALSE]
      [] move.piece = "K" ->
            [castling EXCEPT !.whiteKingSide = FALSE, !.whiteQueenSide = FALSE]
      [] OTHER -> castling

\* ------------------------------------------------------------ board mutator
updateCastlingRights(castling, move) ==
    CASE move.piece = "k" ->
            [castling EXCEPT !.blackKingSide = FALSE, !.blackQueenSide = FALSE]
      [] move.piece = "K" ->
            [castling EXCEPT !.whiteKingSide = FALSE, !.whiteQueenSide = FALSE]
      [] move.piece = "r" ->
            [castling EXCEPT
                !.blackQueenSide = IF move.from = <<"a", "8">> THEN FALSE ELSE @,
                !.blackKingSide = IF move.from = <<"h", "8">> THEN FALSE ELSE @]
      [] move.piece = "R" ->
            [castling EXCEPT
                !.whiteQueenSide = IF move.from = <<"a", "1">> THEN FALSE ELSE @,
                !.whiteKingSide = IF move.from = <<"h", "1">> THEN FALSE ELSE @]
      [] OTHER -> castling

\* A variant that moves the king and leaves the rook where it stands.
applyCastlingMove_KingOnly(newBoard, move) ==
    [newBoard EXCEPT
        !.pieces = [@ EXCEPT ![move.from] = Undefined, ![move.to] = move.piece],
        !.canCastle = updateCastlingRights(@, move)]

applyCastlingMove(newBoard, move) ==
    LET isWhiteMove == move.turn = PlayerColor.WHITE
        rank == IF isWhiteMove THEN "1" ELSE "8"
        king == IF isWhiteMove THEN "K" ELSE "k"
        rook == IF isWhiteMove THEN "R" ELSE "r"
        rights == IF isWhiteMove
                  THEN [newBoard.canCastle EXCEPT !.whiteKingSide = FALSE,
                                                  !.whiteQueenSide = FALSE]
                  ELSE [newBoard.canCastle EXCEPT !.blackKingSide = FALSE,
                                                  !.blackQueenSide = FALSE]
    IN IF move.castling = "king-side"
       THEN [newBoard EXCEPT
                !.pieces = [@ EXCEPT ![<<"e", rank>>] = Undefined,
                                     ![<<"h", rank>>] = Undefined,
                                     ![<<"g", rank>>] = king,
                                     ![<<"f", rank>>] = rook],
                !.canCastle = rights]
       ELSE IF move.castling = "queen-side"
       THEN [newBoard EXCEPT
                !.pieces = [@ EXCEPT ![<<"e", rank>>] = Undefined,
                                     ![<<"a", rank>>] = Undefined,
                                     ![<<"c", rank>>] = king,
                                     ![<<"d", rank>>] = rook],
                !.canCastle = rights]
       ELSE newBoard

\* A variant that does not ask whether the piece is a pawn.
enPassantTargetAfter_AnyPiece(isWhiteMove, move) ==
    IF Abs(rankIndex(move.from) - rankIndex(move.to)) = 2
    THEN <<move.from[1], IF isWhiteMove THEN EnPassantRank.white
                                        ELSE EnPassantRank.black>>
    ELSE Null

\* The en-passant target applyMove leaves: null, unless a pawn moved two ranks.
enPassantTargetAfter(isWhiteMove, move) ==
    IF isPawn(move.piece) /\ Abs(rankIndex(move.from) - rankIndex(move.to)) = 2
    THEN <<move.from[1], IF isWhiteMove THEN EnPassantRank.white
                                        ELSE EnPassantRank.black>>
    ELSE Null

\* A variant of applyMove that keeps the piece map and the castling rights of
\* its argument: pieces: board.pieces, canCastle: board.canCastle.
newBoardShares_Pieces == {"pieces", "canCastle"}

\* The objects of the argument that newBoard holds as its own: none.  newBoard
\* is a new object literal with pieces: board.pieces.clone(), canCastle:
\* {...board.canCastle}, allowedMoves: new BoardMap() and moves:
\* [...board.moves, move]; the other fields are numbers and strings.
newBoardShares == {}

\* applyMove up to, and without, its final fillAllowedMoves(newBoard):
\* the new Position with an empty legal-destination mapping, or the throw.
applyMoveCore(board, move) ==
    LET isWhiteMove == board.turnColor = PlayerColor.WHITE
        newBoard == [pieces |-> board.pieces,
                     turnColor |-> IF isWhiteMove THEN PlayerColor.BLACK
                                                  ELSE PlayerColor.WHITE,
                     canCastle |-> board.canCastle,
                     enPassantTarget |-> Null,
                     halfMoveClock |-> board.halfMoveClock + 1,
                     fullMoveNumber |-> IF isWhiteMove THEN board.fullMoveNumber
                                                       ELSE board.fullMoveNumber + 1,
                     allowedMoves |-> <<>>,
                     moves |-> Append(board.moves, move)]
        isPawnMove == isPawn(move.piece)
        afterFrom == [newBoard.pieces EXCEPT ![move.from] = Undefined]
        afterEp == IF move.isEnPassantCapture
                   THEN [afterFrom EXCEPT ![<<move.to[1], move.from[2]>>] = Undefined]
                   ELSE afterFrom
        afterTo == [afterEp EXCEPT ![move.to] = IF move.promotion # Undefined
                                                THEN move.promotion ELSE move.piece]
    IN IF board.pieces[move.from] # move.piece
       THEN Throw("Piece does not match the move piece")
       ELSE IF move.castling # Undefined
       THEN [kind |-> "ok", board |-> applyCastlingMove(newBoard, move)]
       ELSE [kind |-> "ok", board |->
                [newBoard EXCEPT
                    !.pieces = afterTo,
                    !.canCastle = updateCastlingRights(newBoard.canCastle, move),
                    !.halfMoveClock = IF isPawnMove \/ move.isCapture THEN 0 ELSE @,
                    !.enPassantTarget = enPassantTargetAfter(isWhiteMove, move)]]

\* The final fillAllowedMoves(newBoard), unless the call has thrown.
thenFillAllowedMoves(r) == IF r.kind = "ok" THEN fillAllowedMoves(r.board) ELSE r

\* A variant of applyMove without the comparison of board.pieces.get(move.from)
\* with move.piece: the piece of the move is taken to stand on move.from.
applyMove_Unchecked(board, move) ==
    thenFillAllowedMoves(
        applyMoveCore([board EXCEPT !.pieces = [@ EXCEPT ![move.from] = move.piece]],
                      move))

\* A variant whose full-move counter goes up on White's moves as well.
applyMove_CountEveryMove(board, move) ==
    thenFillAllowedMoves(applyMoveCore([board EXCEPT !.fullMoveNumber = @ + 1], move))

applyMove(board, move) == thenFillAllowedMoves(applyMoveCore(board, move))

\* The argument of applyMove once the call is over, `r` being what the call
\* returned.  The throw precedes every write.  Afterwards applyMove writes to
\* newBoard and to the objects newBoard holds (pieces.delete / set,
\* updateCastlingRights(newBoard.canCastle, move), allowedMoves.set): the
\* argument sees a write exactly on the objects it shares with newBoard.
argumentAfter(board, r) ==
    IF r.kind # "ok" THEN board
    ELSE [f \in DOMAIN board |->
             IF f \in newBoardShares THEN r.board[f] ELSE board[f]]

\* ---------------------------------------------------------------- FEN codec
DigitChars == <<"0", "1", "2", "3", "4", "5", "6", "7", "8", "9">>
DigitSet == {DigitChars[i] : i \in 1..10}
DigitValue == [c \in DigitSet |-> (CHOOSE i \in 1..10 : DigitChars[i] = c) - 1]

isNumberChar(c) == c \in DigitSet

\* Number -> decimal text, as string concatenation / template literals
\* render a non-negative integer.
RECURSIVE numberToText(_)
numberToText(n) ==
    IF n < 10 THEN <<DigitChars[n + 1]>>
    ELSE numberToText(n \div 10) \o <<DigitChars[(n % 10) + 1]>>

\* String.prototype.split(sep) for a one-character separator.
RECURSIVE split(_, _)
split(text, sep) ==
    IF \A i \in 1..Len(text) : text[i] # sep
    THEN <<text>>
    ELSE LET k == CHOOSE i \in 1..Len(text) :
                     text[i] = sep /\ \A j \in 1..(i - 1) : text[j] # sep
         IN <<SubSeq(text, 1, k - 1)>> \o split(SubSeq(text, k + 1, Len(text)), sep)

\* Array.prototype.join(sep).
RECURSIVE join(_, _)
join(parts, sep) ==
    IF Len(parts) = 0 THEN <<>>
    ELSE IF Len(parts) = 1 THEN parts[1]
    ELSE parts[1] \o <<sep>> \o join(Tail(parts), sep)

\* parseInt(text, 10): optional sign, then the leading run of digits;
\* NaN when there is none.  (Split fields hold no white space.)
RECURSIVE digitsValue(_, _, _)
digitsValue(text, i, acc) ==
    IF i > Len(text) \/ ~isNumberChar(text[i]) THEN acc
    ELSE digitsValue(text, i + 1, acc * 10 + DigitValue[text[i]])

parseInt(text) ==
    LET signed == Len(text) > 0 /\ text[1] \in {"-", "+"}
        start == IF signed THEN 2 ELSE 1
    IN IF start > Len(text) \/ ~isNumberChar(text[start])
       THEN [isNaN |-> TRUE, value |-> 0]
       ELSE [isNaN |-> FALSE,
             value |-> IF signed /\ text[1] = "-"
                       THEN 0 - digitsValue(text, start, 0)
                       ELSE digitsValue(text, start, 0)]

\* One rank of boardToFen: the inner loop over BOARD_FILES from file index
\* `col` (0-based) with the running emptyCount.
RECURSIVE fenRow(_, _, _, _)
fenRow(pieces, row, col, emptyCount) ==
    IF col > 7
    THEN (IF emptyCount > 0 THEN numberToText(emptyCount) ELSE <<>>)
    ELSE LET piece == pieces[<<BOARD_FILES[col + 1], row>>]
         IN IF piece # Undefined
            THEN (IF emptyCount > 0 THEN numberToText(emptyCount) ELSE <<>>)
                 \o <<piece>> \o fenRow(pieces, row, col + 1, 0)
            ELSE fenRow(pieces, row, col + 1, emptyCount + 1)

\* `${turn}`: the PlayerColor value itself is interpolated.
colorText(color) ==
    IF color = PlayerColor.WHITE THEN <<"w", "h", "i", "t", "e">>
                                 ELSE <<"b", "l", "a", "c", "k">>

boardToFen(fen) ==
    LET rows == [k \in 1..8 |-> fenRow(fen.pieces, BOARD_RANKS[9 - k], 0, 0)]
        placement == join(rows, "/")
        turn == colorText(fen.turnColor)
        flags == (IF fen.canCastle.whiteKingSide THEN <<"K">> ELSE <<>>)
                 \o (IF fen.canCastle.whiteQueenSide THEN <<"Q">> ELSE <<>>)
                 \o (IF fen.canCastle.blackKingSide THEN <<"k">> ELSE <<>>)
                 \o (IF fen.canCastle.blackQueenSide THEN <<"q">> ELSE <<>>)
        castling == IF flags = <<>> THEN <<"-">> ELSE flags
        enPassant == IF fen.enPassantTarget # Null THEN fen.enPassantTarget ELSE <<"-">>
    IN placement \o <<" ">> \o turn \o <<" ">> \o castling \o <<" ">> \o enPassant
       \o <<" ">> \o numberToText(fen.halfMoveClock)
       \o <<" ">> \o numberToText(fen.fullMoveNumber)

\* One row of parseFen's placement loop, from character i with the running
\* colIndex: the pieces map after the row, or the throw.
RECURSIVE parseFenRow(_, _, _, _, _)
parseFenRow(rowStr, i, colIndex, rowIndex, pieces) ==
    IF i > Len(rowStr) THEN [kind |-> "ok", pieces |-> pieces]
    ELSE LET char == rowStr[i]
         IN IF isNumberChar(char)
            THEN parseFenRow(rowStr, i + 1, colIndex + DigitValue[char], rowIndex, pieces)
            ELSE IF ~isPiece(char) THEN Throw("Invalid piece ID in FEN string")
            ELSE IF colIndex > 7 THEN Throw("Invalid column index in FEN string")
            ELSE parseFenRow(rowStr, i + 1, colIndex + 1, rowIndex,
                             [pieces EXCEPT ![<<BOARD_FILES[colIndex + 1],
                                               BOARD_RANKS[rowIndex + 1]>>] = char])

\* The loop over the reversed rows, rowIndex = 7 down to 0; fenRows is the
\* array before its reversal, so reversed[rowIndex] = fenRows[8 - rowIndex].
RECURSIVE parseFenRows(_, _, _)
parseFenRows(fenRows, rowIndex, pieces) ==
    IF rowIndex < 0 THEN [kind |-> "ok", pieces |-> pieces]
    ELSE LET r == parseFenRow(fenRows[8 - rowIndex], 1, 0, rowIndex, pieces)
         IN IF r.kind = "ok" THEN parseFenRows(fenRows, rowIndex - 1, r.pieces) ELSE r

includes(text, c) == \E i \in 1..Len(text) : text[i] = c

\* parseFen up to, and without, its final fillAllowedMoves(board).
parseFenCore(fen) ==
    LET fenParts == split(fen, " ")
        part(k, default) == IF Len(fenParts) >= k THEN fenParts[k] ELSE default
        piecePlacement == fenParts[1]
        turnStr == part(2, <<"w">>)
        castlingRightsStr == part(3, <<"-">>)
        enPassantTargetStr == part(4, <<"-">>)
        halfMoveClockStr == part(5, <<"0">>)
        fullMoveNumberStr == part(6, <<"1">>)
        fenRows == split(piecePlacement, "/")
        placed == parseFenRows(fenRows, 7, EmptyPieces)
        halfMoveClock == parseInt(halfMoveClockStr)
        fullMoveNumber == parseInt(fullMoveNumberStr)
    IN IF Len(fenRows) # 8 THEN Throw("Invalid FEN string: must contain exactly 8 rows")
       ELSE IF placed.kind # "ok" THEN placed
       ELSE IF enPassantTargetStr # <<"-">> /\ ~isPositionStr(enPassantTargetStr)
            THEN Throw("Invalid en passant target position in FEN string")
       ELSE IF halfMoveClock.isNaN \/ halfMoveClock.value < 0
            THEN Throw("Invalid half move clock in FEN string")
       ELSE IF fullMoveNumber.isNaN \/ fullMoveNumber.value < 1
            THEN Throw("Invalid full move number in FEN string")
       ELSE [kind |-> "ok", board |->
                [pieces |-> placed.pieces,
                 turnColor |-> IF turnStr = <<"w">> THEN PlayerColor.WHITE
                                                    ELSE PlayerColor.BLACK,
                 canCastle |-> [whiteKingSide |-> includes(castlingRightsStr, "K"),
                                whiteQueenSide |-> includes(castlingRightsStr, "Q"),
                                blackKingSide |-> includes(castlingRightsStr, "k"),
                                blackQueenSide |-> includes(castlingRightsStr, "q")],
                 enPassantTarget |-> IF enPassantTargetStr # <<"-">>
                                     THEN enPassantTargetStr ELSE Null,
                 halfMoveClock |-> halfMoveClock.value,
                 fullMoveNumber |-> fullMoveNumber.value,
                 allowedMoves |-> <<>>,
                 moves |-> <<>>]]

parseFen(fen) == thenFillAllowedMoves(parseFenCore(fen))

\* Number(char) for a text of one character: the digit's value, 0 for a
\* white-space character, NaN for any other.
numberOfChar(char) ==
    IF char \in DigitSet THEN [isNaN |-> FALSE, value |-> DigitValue[char]]
    ELSE IF char \in {"\n", "\r", "\t"} THEN [isNaN |-> FALSE, value |-> 0]
    ELSE [isNaN |-> TRUE, value |-> 0]

\* char.toLowerCase(), on the characters of the FEN texts modelled.
toLowerCase(char) == IF char \in WhitePieces THEN ToLower[char] ELSE char

\* validateFen's loop over one row, from character i with the running sum.
RECURSIVE validateFenRow(_, _, _)
validateFenRow(row, i, sum) ==
    IF i > Len(row) THEN sum = 8
    ELSE IF ~numberOfChar(row[i]).isNaN
    THEN validateFenRow(row, i + 1, sum + numberOfChar(row[i]).value)
    ELSE IF ~isPiece(toLowerCase(row[i])) THEN FALSE
    ELSE validateFenRow(row, i + 1, sum + 1)

validateFenRows(rows) ==
    Len(rows) = 8 /\ \A k \in 1..8 : validateFenRow(rows[k], 1, 0)

validateFen(fen) ==
    /\ fen # <<>>
    /\ Len(split(fen, " ")) = 6
    /\ split(fen, " ")[1] # <<>>
    /\ validateFenRows(split(split(fen, " ")[1], "/"))

\* ------------------------------------------------ algebraic decoder (text)
KING_SIDE_CASTLING_STR == <<"O", "-", "O">>
QUEEN_SIDE_CASTLING_STR == <<"O", "-", "O", "-", "O">>

ALGEBRAIC_CHECK_CHAR == "+"
ALGEBRAIC_CHECKMATE_CHAR == "#"
ALGEBRAIC_PROMOTION_CHAR == "="
ALGEBRAIC_CAPTURE_CHAR == "x"

AlgebraicPieceChar == [KNIGHT |-> "N", BISHOP |-> "B", ROOK |-> "R",
                       QUEEN |-> "Q", KING |-> "K"]

\* text[i] with a 0-based index: `undefined` beyond the end.
charAt(text, i) == IF i >= 0 /\ i < Len(text) THEN text[i + 1] ELSE Undefined

\* `null`: the text is not of the form this parser handles.
NoMatch == [kind |-> "null"]

algebraicPieceCharToPieceId(pieceChar, white) ==
    IF white THEN pieceChar ELSE ToLower[pieceChar]

isAlgebraicPromotionPieceChar(c) == c \in {"Q", "R", "B", "N"}

onBoard(fileIdx, rankIdx) ==
    fileIdx >= 0 /\ fileIdx < 8 /\ rankIdx >= 0 /\ rankIdx < 8

squareAt(fileIdx, rankIdx) == <<BOARD_FILES[fileIdx + 1], BOARD_RANKS[rankIdx + 1]>>

\* The fixed-offset lookup shared by the knight and king candidate searches.
offsetFromPositions(origin, board, offsets, desiredFile, desiredRank, lookup) ==
    {pos \in Position :
        /\ <<fileIndex(pos) - fileIndex(origin), rankIndex(pos) - rankIndex(origin)>>
              \in offsets
        /\ (desiredFile = Undefined \/ pos[1] = desiredFile)
        /\ (desiredRank = Undefined \/ pos[2] = desiredRank)
        /\ board.pieces[pos] = lookup}

knightOffsets ==
    {<<2, 1>>, <<1, 2>>, <<-1, 2>>, <<-2, 1>>, <<-2, -1>>, <<-1, -2>>, <<1, -2>>, <<2, -1>>}

kingOffsets ==
    {<<1, 0>>, <<1, 1>>, <<0, 1>>, <<-1, 1>>, <<-1, 0>>, <<-1, -1>>, <<0, -1>>, <<1, -1>>}

getPossibleKnightFromPositions(origin, board, desiredFile, desiredRank) ==
    offsetFromPositions(origin, board, knightOffsets, desiredFile, desiredRank,
                        IF board.turnColor = PlayerColor.WHITE THEN "N" ELSE "n")

getPossibleKingFromPositions(origin, board, desiredFile, desiredRank) ==
    offsetFromPositions(origin, board, kingOffsets, desiredFile, desiredRank,
                        IF board.turnColor = PlayerColor.WHITE THEN "K" ELSE "k")

\* One ray of the bishop / rook candidate search, from (fileIdx, rankIdx)
\* outwards: a square that fails the desired file or rank is stepped over
\* without looking at what stands on it.
RECURSIVE rayFromPositions(_, _, _, _, _, _, _, _)
rayFromPositions(board, fileIdx, rankIdx, df, dr, desiredFile, desiredRank, lookup) ==
    IF ~onBoard(fileIdx, rankIdx) THEN {}
    ELSE LET pos == squareAt(fileIdx, rankIdx)
             pieceAtPos == board.pieces[pos]
             further == rayFromPositions(board, fileIdx + df, rankIdx + dr, df, dr,
                                         desiredFile, desiredRank, lookup)
         IN IF desiredFile # Undefined /\ pos[1] # desiredFile THEN further
            ELSE IF desiredRank # Undefined /\ pos[2] # desiredRank THEN further
            ELSE IF pieceAtPos = lookup THEN {pos}
            ELSE IF pieceAtPos # Undefined THEN {}
            ELSE further

raysFromPositions(origin, board, directions, desiredFile, desiredRank, lookup) ==
    UNION {rayFromPositions(board, fileIndex(origin) + d[1], rankIndex(origin) + d[2],
                            d[1], d[2], desiredFile, desiredRank, lookup)
           : d \in directions}

bishopDirections == {<<1, 1>>, <<1, -1>>, <<-1, 1>>, <<-1, -1>>}
rookDirections == {<<1, 0>>, <<-1, 0>>, <<0, 1>>, <<0, -1>>}

getPossibleBishopFromPositions(origin, board, desiredFile, desiredRank, lookupPieceId) ==
    raysFromPositions(origin, board, bishopDirections, desiredFile, desiredRank,
                      IF lookupPieceId # Undefined THEN lookupPieceId
                      ELSE IF board.turnColor = PlayerColor.WHITE THEN "B" ELSE "b")

getPossibleRookFromPositions(origin, board, desiredFile, desiredRank, lookupPieceId) ==
    raysFromPositions(origin, board, rookDirections, desiredFile, desiredRank,
                      IF lookupPieceId # Undefined THEN lookupPieceId
                      ELSE IF board.turnColor = PlayerColor.WHITE THEN "R" ELSE "r")

getPossibleQueenFromPositions(origin, board, desiredFile, desiredRank) ==
    LET queen == IF board.turnColor = PlayerColor.WHITE THEN "Q" ELSE "q"
    IN getPossibleRookFromPositions(origin, board, desiredFile, desiredRank, queen)
       \cup getPossibleBishopFromPositions(origin, board, desiredFile, desiredRank, queen)

getPossibleMovePositionsByAlgebraic(origin, board, pieceChar, desiredFile, desiredRank) ==
    CASE pieceChar = "N" ->
            getPossibleKnightFromPositions(origin, board, desiredFile, desiredRank)
      [] pieceChar = "B" ->
            getPossibleBishopFromPositions(origin, board, desiredFile, desiredRank, Undefined)
      [] pieceChar = "R" ->
            getPossibleRookFromPositions(origin, board, desiredFile, desiredRank, Undefined)
      [] pieceChar = "Q" ->
            getPossibleQueenFromPositions(origin, board, desiredFile, desiredRank)
      [] pieceChar = "K" ->
            getPossibleKingFromPositions(origin, board, desiredFile, desiredRank)

\* The header of a piece-letter text as tryParseAlgebraicMoveByChar scans it:
\* disambiguation characters, capture mark, destination, suffix.
scanPieceText(algebraic) ==
    LET hasFile == /\ isBoardFile(charAt(algebraic, 1))
                   /\ (isBoardFile(charAt(algebraic, 2)) \/ isBoardFile(charAt(algebraic, 3)))
        o1 == IF hasFile THEN 2 ELSE 1
        hasRank == /\ isBoardRank(charAt(algebraic, o1))
                   /\ (isBoardFile(charAt(algebraic, o1 + 1))
                       \/ isBoardFile(charAt(algebraic, o1 + 2)))
        o2 == IF hasRank THEN o1 + 1 ELSE o1
        capture == charAt(algebraic, o2) = ALGEBRAIC_CAPTURE_CHAR
        o3 == IF capture THEN o2 + 1 ELSE o2
        hasCheckOrMate == charAt(algebraic, o3 + 2)
                             \in {ALGEBRAIC_CHECK_CHAR, ALGEBRAIC_CHECKMATE_CHAR}
    IN [fromFile |-> IF hasFile THEN charAt(algebraic, 1) ELSE Undefined,
        fromRank |-> IF hasRank THEN charAt(algebraic, o1) ELSE Undefined,
        isCapture |-> capture,
        toFile |-> charAt(algebraic, o3),
        toRank |-> charAt(algebraic, o3 + 1),
        expectedLength |-> IF hasCheckOrMate THEN o3 + 3 ELSE o3 + 2]

\* The checks on what calculateMove(board, from, to) returned for the one
\* candidate.
checkResolved(algebraic, piece, isCapture, r) ==
    IF r.kind # "ok" THEN r
    ELSE IF isCapture /\ ~r.move.isCapture
    THEN Err(InvalidAlgebraicNotation(algebraic))
    ELSE IF r.move.piece # piece THEN Err(InvalidPieceMove(piece))
    ELSE r

\* From the candidate origins to the answer.
resolveFrom(algebraic, board, piece, to, isCapture, fromPositions) ==
    IF Cardinality(fromPositions) > 1
    THEN Err(AmbiguousAlgebraicNotation(algebraic, piece))
    ELSE IF fromPositions = {}
    THEN Err(InvalidPieceMove(piece))
    ELSE checkResolved(algebraic, piece, isCapture,
                       calculateMove(board, CHOOSE f \in fromPositions : TRUE, to,
                                     Undefined, FALSE))

\* tryParseAlgebraicMoveByChar after the scan `h` of the text.
parseScanned(algebraic, board, pieceChar, h) ==
    IF /\ pieceChar = AlgebraicPieceChar.KING
       /\ h.fromFile # Undefined /\ h.fromRank # Undefined
    THEN Err(InvalidAlgebraicNotation(algebraic))
    ELSE IF ~isBoardFile(h.toFile) \/ ~isBoardRank(h.toRank)
    THEN Err(InvalidAlgebraicNotation(algebraic))
    ELSE IF Len(algebraic) # h.expectedLength
    THEN Err(InvalidAlgebraicNotation(algebraic))
    ELSE resolveFrom(algebraic, board,
                     algebraicPieceCharToPieceId(pieceChar,
                                                 board.turnColor = PlayerColor.WHITE),
                     <<h.toFile, h.toRank>>, h.isCapture,
                     getPossibleMovePositionsByAlgebraic(
                         <<h.toFile, h.toRank>>, board, pieceChar, h.fromFile, h.fromRank))

tryParseAlgebraicMoveByChar(algebraic, board, pieceChar) ==
    IF charAt(algebraic, 0) # pieceChar THEN NoMatch
    ELSE parseScanned(algebraic, board, pieceChar, scanPieceText(algebraic))

\* The end of tryParseAlgebraicPawnMove, `r` being what
\* calculateMove(board, from, to, undefined, true) returned.
pawnMoveOf(pawn, promotionPiece, r) ==
    IF r.kind # "ok" THEN r
    ELSE IF r.move.piece # pawn THEN Err(InvalidPieceMove(pawn))
    ELSE Ok([r.move EXCEPT !.promotion = promotionPiece])

tryParseAlgebraicPawnMove(algebraic, board) ==
    LET hasCaptureFile == charAt(algebraic, 1) = ALGEBRAIC_CAPTURE_CHAR
        o1 == IF hasCaptureFile THEN 2 ELSE 0
        toFile == charAt(algebraic, o1)
        toRank == charAt(algebraic, o1 + 1)
        white == board.turnColor = PlayerColor.WHITE
        hasPromotion == charAt(algebraic, o1 + 2) = ALGEBRAIC_PROMOTION_CHAR
        promotionChar == charAt(algebraic, o1 + 3)
        promotionPiece == IF ~hasPromotion THEN Undefined
                          ELSE IF white THEN promotionChar ELSE ToLower[promotionChar]
        o2 == IF hasPromotion THEN o1 + 4 ELSE o1 + 2
        hasCheckOrMate == charAt(algebraic, o2)
                             \in {ALGEBRAIC_CHECK_CHAR, ALGEBRAIC_CHECKMATE_CHAR}
        expectedLength == IF hasCheckOrMate THEN o2 + 1 ELSE o2
        pawn == IF white THEN "P" ELSE "p"
        prevRank == IF white THEN prevBoardRank(toRank) ELSE nextBoardRank(toRank)
        fromFile == IF hasCaptureFile THEN charAt(algebraic, 0) ELSE toFile
        pawnTwoStepRank == IF white THEN "4" ELSE "5"
        pawnStartRank == IF white THEN "2" ELSE "7"
    IN IF hasCaptureFile /\ ~isBoardFile(charAt(algebraic, 0)) THEN NoMatch
       ELSE IF ~isBoardFile(toFile) \/ ~isBoardRank(toRank) THEN NoMatch
       ELSE IF hasPromotion /\ ~isAlgebraicPromotionPieceChar(promotionChar)
       THEN Err(InvalidAlgebraicNotation(algebraic))
       ELSE IF Len(algebraic) # expectedLength
       THEN Err(InvalidAlgebraicNotation(algebraic))
       ELSE IF prevRank = Undefined THEN Err(InvalidPieceMove(pawn))
       ELSE IF board.pieces[<<fromFile, prevRank>>] # pawn /\ toRank # pawnTwoStepRank
       THEN Err(InvalidPieceMove(pawn))
       ELSE pawnMoveOf(pawn, promotionPiece,
                       calculateMove(board,
                                     IF board.pieces[<<fromFile, prevRank>>] # pawn
                                     THEN <<fromFile, pawnStartRank>>
                                     ELSE <<fromFile, prevRank>>,
                                     <<toFile, toRank>>, Undefined, TRUE))

\* The text is `str` followed by one more character.
isSuffixed(algebraic, str) ==
    Len(algebraic) = Len(str) + 1 /\ SubSeq(algebraic, 1, Len(str)) = str

isCheckOrMate(c) == c = ALGEBRAIC_CHECK_CHAR \/ c = ALGEBRAIC_CHECKMATE_CHAR

\* The destination file tryParseAlgebraicCastlingMove settles on, "bad" for a
\* castling text with a wrong last character, Undefined for any other text.
castlingToFile(algebraic) ==
    IF algebraic = KING_SIDE_CASTLING_STR THEN "g"
    ELSE IF isSuffixed(algebraic, KING_SIDE_CASTLING_STR)
    THEN (IF ~isCheckOrMate(charAt(algebraic, Len(KING_SIDE_CASTLING_STR)))
          THEN "bad" ELSE "g")
    ELSE IF algebraic = QUEEN_SIDE_CASTLING_STR THEN "c"
    ELSE IF isSuffixed(algebraic, QUEEN_SIDE_CASTLING_STR)
    THEN (IF ~isCheckOrMate(charAt(algebraic, Len(QUEEN_SIDE_CASTLING_STR)))
          THEN "bad" ELSE "c")
    ELSE Undefined

castlingTo(algebraic, board, rank, toFile) ==
    IF toFile = "bad" THEN Err(InvalidAlgebraicNotation(algebraic))
    ELSE IF toFile = Undefined THEN NoMatch
    ELSE calculateMove(board, <<"e", rank>>, <<toFile, rank>>, Undefined, TRUE)

tryParseAlgebraicCastlingMove(algebraic, board) ==
    castlingTo(algebraic, board,
               IF board.turnColor = PlayerColor.WHITE THEN "1" ELSE "8",
               castlingToFile(algebraic))

\* a ?? b: b is asked only when a is null.
orElse(a, b) == IF a.kind # "null" THEN a ELSE b

\* The `??` chain over the piece letters, then the pawn parser.
RECURSIVE firstMatch(_, _, _)
firstMatch(algebraic, board, chars) ==
    IF chars = <<>> THEN tryParseAlgebraicPawnMove(algebraic, board)
    ELSE orElse(tryParseAlgebraicMoveByChar(algebraic, board, Head(chars)),
                firstMatch(algebraic, board, Tail(chars)))

calculateMoveFromAlgebraic(board, algebraic) ==
    IF Len(algebraic) < 2 THEN Err(InvalidAlgebraicNotation(algebraic))
    ELSE orElse(orElse(tryParseAlgebraicCastlingMove(algebraic, board),
                       firstMatch(algebraic, board, <<"N", "B", "R", "Q", "K">>)),
                Err(InvalidAlgebraicNotation(algebraic)))

\* ------------------------------------------------------------ loaded texts
\* pgn.ts:323
\* rnbqkbnr/pppppppp/8/8/8/8/PPPPPPPP/RNBQKBNR w KQkq - 0 1
INITIAL_FEN ==
    <<"r", "n", "b", "q", "k", "b", "n", "r", "/", "p", "p", "p", "p", "p",
      "p", "p", "p", "/", "8", "/", "8", "/", "8", "/", "8", "/", "P", "P",
      "P", "P", "P", "P", "P", "P", "/", "R", "N", "B", "Q", "K", "B", "N",
      "R", " ", "w", " ", "K", "Q", "k", "q", " ", "-", " ", "0", " ", "1">>

\* both sides may castle on both wings
\* r3k2r/p6p/8/8/8/8/P6P/R3K2R w KQkq - 0 1
FenCastling ==
    <<"r", "3", "k", "2", "r", "/", "p", "6", "p", "/", "8", "/", "8", "/",
      "8", "/", "8", "/", "P", "6", "P", "/", "R", "3", "K", "2", "R", " ",
      "w", " ", "K", "Q", "k", "q", " ", "-", " ", "0", " ", "1">>

\* a double pawn step that can be answered en passant
\* 4k3/8/8/8/3p4/8/4P3/4K3 w - - 0 1
FenEnPassant ==
    <<"4", "k", "3", "/", "8", "/", "8", "/", "8", "/", "3", "p", "4", "/",
      "8", "/", "4", "P", "3", "/", "4", "K", "3", " ", "w", " ", "-", " ",
      "-", " ", "0", " ", "1">>

\* pawns one step from promotion; two-digit clocks
\* 4k3/P7/8/8/8/8/7p/4K3 w - - 10 20
FenPromotion ==
    <<"4", "k", "3", "/", "P", "7", "/", "8", "/", "8", "/", "8", "/", "8",
      "/", "7", "p", "/", "4", "K", "3", " ", "w", " ", "-", " ", "-", " ",
      "1", "0", " ", "2", "0">>

\* a pinned knight
\* 4k3/4r3/8/8/8/8/4N3/4K3 w - - 0 1
FenPinned ==
    <<"4", "k", "3", "/", "4", "r", "3", "/", "8", "/", "8", "/", "8", "/",
      "8", "/", "4", "N", "3", "/", "4", "K", "3", " ", "w", " ", "-", " ",
      "-", " ", "0", " ", "1">>

\* two knights reach d2; the king is attacked
\* 4k3/8/8/8/8/8/3p4/1N2KN2 w - - 0 1
FenTwoKnights ==
    <<"4", "k", "3", "/", "8", "/", "8", "/", "8", "/", "8", "/", "8", "/",
      "3", "p", "4", "/", "1", "N", "2", "K", "N", "2", " ", "w", " ", "-",
      " ", "-", " ", "0", " ", "1">>

\* black to move, partial rights
\* r3k3/8/8/8/8/8/6n1/4K2R b Qq - 3 7
FenBlackToMove ==
    <<"r", "3", "k", "3", "/", "8", "/", "8", "/", "8", "/", "8", "/", "8",
      "/", "6", "n", "1", "/", "4", "K", "2", "R", " ", "b", " ", "Q", "q",
      " ", "-", " ", "3", " ", "7">>

\* the short castling path is blocked next to the king
\* 4k3/8/8/8/8/8/8/4KB1R w K - 0 1
FenCastleF1 ==
    <<"4", "k", "3", "/", "8", "/", "8", "/", "8", "/", "8", "/", "8", "/",
      "8", "/", "4", "K", "B", "1", "R", " ", "w", " ", "K", " ", "-", " ",
      "0", " ", "1">>

\* a black knight stands on the king's castling destination
\* 4k3/8/8/8/8/8/8/4K1nR w K - 0 1
FenCastleG1 ==
    <<"4", "k", "3", "/", "8", "/", "8", "/", "8", "/", "8", "/", "8", "/",
      "8", "/", "4", "K", "1", "n", "R", " ", "w", " ", "K", " ", "-", " ",
      "0", " ", "1">>

\* the white king is attacked along the e-file; f1 and g1 are empty
\* 4r1k1/8/8/8/8/8/8/4K2R w K - 0 1
FenCastleInCheck ==
    <<"4", "r", "1", "k", "1", "/", "8", "/", "8", "/", "8", "/", "8", "/",
      "8", "/", "8", "/", "4", "K", "2", "R", " ", "w", " ", "K", " ", "-",
      " ", "0", " ", "1">>

\* the f-pawn is pinned to the king; the castling destination g1 is attacked
\* 4k1r1/8/8/8/7b/8/5P2/4K2R w K - 0 1
FenPinnedPawn ==
    <<"4", "k", "1", "r", "1", "/", "8", "/", "8", "/", "8", "/", "7", "b",
      "/", "8", "/", "5", "P", "2", "/", "4", "K", "2", "R", " ", "w", " ",
      "K", " ", "-", " ", "0", " ", "1">>

\* the black bishop takes the rook on h1, White keeps the king-side right
\* 4k3/8/8/8/8/8/6b1/4K2R b K - 0 1
FenRookTaken ==
    <<"4", "k", "3", "/", "8", "/", "8", "/", "8", "/", "8", "/", "8", "/",
      "6", "b", "1", "/", "4", "K", "2", "R", " ", "b", " ", "K", " ", "-",
      " ", "0", " ", "1">>

\* a white rook stands on e1, the white king on a1
\* 4k3/8/8/8/8/8/8/K3R3 w - - 0 1
FenRookOnE1 ==
    <<"4", "k", "3", "/", "8", "/", "8", "/", "8", "/", "8", "/", "8", "/",
      "8", "/", "K", "3", "R", "3", " ", "w", " ", "-", " ", "-", " ", "0",
      " ", "1">>

\* Positions loaded to ask for one move.
ProbeFens == {FenCastleF1, FenCastleG1, FenCastleInCheck, FenPinnedPawn, FenRookOnE1}

\* The FEN texts a game is loaded from.
StartFens == {INITIAL_FEN, FenCastling, FenEnPassant, FenPromotion, FenPinned,
              FenTwoKnights, FenBlackToMove, FenRookTaken} \cup ProbeFens

\* FEN texts typed into the FEN input.  The last rank is every text of up to
\* MaxRowLen characters over a king, a pawn, a letter that is no piece, the
\* gaps 1, 7 and 8 and a line break, under seven ranks that are in order.
RowChars == {"K", "p", "x", "1", "7", "8", "\n"}

RECURSIVE RowTexts(_)
RowTexts(n) ==
    IF n = 0 THEN {<<>>}
    ELSE RowTexts(n - 1) \cup {Append(t, c) : t \in RowTexts(n - 1), c \in RowChars}

\* 4k3/8/8/8/8/8/8/
SevenRanks ==
    <<"4", "k", "3", "/", "8", "/", "8", "/", "8", "/", "8", "/", "8", "/",
      "8", "/">>

\* The five fields after the placement: in order, with an en-passant field
\* that is no square, with clocks that are no numbers or too small, and
\* with fields missing.
FieldTails ==
    {<<" ", "w", " ", "-", " ", "-", " ", "0", " ", "1">>,
     <<" ", "b", " ", "K", "Q", "k", "q", " ", "e", "3", " ", "5", " ", "9">>,
     <<" ", "w", " ", "-", " ", "z", "z", " ", "0", " ", "1">>,
     <<" ", "w", " ", "-", " ", "-", " ", "x", " ", "1">>,
     <<" ", "w", " ", "-", " ", "-", " ", "0", " ", "0">>,
     <<" ", "w", " ", "-", " ", "-">>,
     <<>>}

FenInputs ==
    {SevenRanks \o row \o <<" ", "w", " ", "-", " ", "-", " ", "0", " ", "1">> :
        row \in RowTexts(MaxRowLen)}
    \cup {SevenRanks \o <<"4", "K", "3">> \o tail : tail \in FieldTails}
    \cup {SubSeq(SevenRanks, 5, Len(SevenRanks)) \o <<"4", "K", "3">> \o tail :
             tail \in FieldTails}
    \cup {INITIAL_FEN, <<>>}

\* ---------------------------------------------------------------- PGN parser
\* peekChar / consumeChar at the end of the text (null).
NoChar == "null"

\* move.comment left unset.  Texts are tuples of single characters, so no
\* comment text equals this one-element tuple.
NoComment == <<Undefined>>

isWhiteSpace(char) == char = " " \/ char = "\n" \/ char = "\r"

\* Offsets are 0-based, as in the parser.
peekChar(pgn, offset) == IF offset >= Len(pgn) THEN NoChar ELSE pgn[offset + 1]

hasMoreChars(pgn, offset) == offset < Len(pgn)

\* The offset skipWhitespace leaves.
RECURSIVE skipWhitespace(_, _)
skipWhitespace(pgn, offset) ==
    IF isWhiteSpace(peekChar(pgn, offset)) THEN skipWhitespace(pgn, offset + 1)
    ELSE offset

\* String.prototype.slice(start, end) for 0 <= start and 0 <= end.
slice(text, start, end) ==
    IF start >= end \/ start >= Len(text) THEN <<>>
    ELSE SubSeq(text, start + 1, IF end > Len(text) THEN Len(text) ELSE end)

\* String.prototype.trim().
TrimChars == {" ", "\n", "\r", "\t"}

RECURSIVE trim(_)
trim(text) ==
    IF text = <<>> THEN text
    ELSE IF Head(text) \in TrimChars THEN trim(Tail(text))
    ELSE IF text[Len(text)] \in TrimChars THEN trim(SubSeq(text, 1, Len(text) - 1))
    ELSE text

\* The offset the loop of consumeUntilWhiteSpace stops at.
RECURSIVE untilWhiteSpace(_, _)
untilWhiteSpace(pgn, offset) ==
    IF ~hasMoreChars(pgn, offset) \/ isWhiteSpace(pgn[offset + 1]) THEN offset
    ELSE untilWhiteSpace(pgn, offset + 1)

\* consumeUntilWhiteSpace: the characters read (none for null) and the offset.
wordUpTo(pgn, offset, end) == [str |-> slice(pgn, offset, end), offset |-> end]

consumeUntilWhiteSpace(pgn, offset) == wordUpTo(pgn, offset, untilWhiteSpace(pgn, offset))

\* skipToChar: consumes up to and including `target`, or up to the end.
RECURSIVE skipToChar(_, _, _)
skipToChar(pgn, offset, target) ==
    IF ~hasMoreChars(pgn, offset) THEN [found |-> FALSE, offset |-> offset]
    ELSE IF pgn[offset + 1] = target THEN [found |-> TRUE, offset |-> offset + 1]
    ELSE skipToChar(pgn, offset + 1, target)

\* consumeChar: the offset it leaves.
consumeChar(pgn, offset) == IF hasMoreChars(pgn, offset) THEN offset + 1 ELSE offset

\* this.tags[tagName] = tagValue
setTag(tags, tagName, tagValue) ==
    [n \in (DOMAIN tags) \cup {tagName} |-> IF n = tagName THEN tagValue ELSE tags[n]]

\* The while loop of parseMetadata, from its test at `offset`.
RECURSIVE parseTags(_, _, _)

\* ... after the value's closing quote has been looked for, from valueStart.
tagValueRead(pgn, tags, tagName, valueStart, afterValue) ==
    parseTags(pgn,
              skipWhitespace(pgn, skipToChar(pgn, afterValue, "]").offset),
              setTag(tags, tagName, trim(slice(pgn, valueStart, afterValue - 1))))

\* ... after skipToChar('"') and the consumeChar that follows it: tagEnd.
tagNameRead(pgn, tags, tagStart, tagEnd) ==
    tagValueRead(pgn, tags, trim(slice(pgn, tagStart + 1, tagEnd)), tagEnd,
                 skipToChar(pgn, tagEnd, "\"").offset)

parseTags(pgn, offset, tags) ==
    IF peekChar(pgn, offset) # "[" THEN [tags |-> tags, offset |-> offset]
    ELSE tagNameRead(pgn, tags, offset + 1,
                     consumeChar(pgn, skipToChar(pgn, offset + 1, "\"").offset))

parseMetadata(pgn) == parseTags(pgn, skipWhitespace(pgn, 0), <<>>)

FEN_TAG == <<"F", "E", "N">>

\* this.tags['FEN'] ?? INITIAL_FEN
startFenOf(tags) == IF FEN_TAG \in DOMAIN tags THEN tags[FEN_TAG] ELSE INITIAL_FEN

\* The for loop of parseMoveNumber from `offset`, numberStr being read so far.
RECURSIVE moveNumberFrom(_, _, _)
moveNumberFrom(pgn, offset, numberStr) ==
    LET char == peekChar(pgn, offset)
    IN IF char = NoChar THEN [done |-> TRUE, numberStr |-> numberStr, offset |-> offset]
       ELSE IF char = "." THEN [done |-> TRUE, numberStr |-> numberStr, offset |-> offset + 1]
       ELSE IF ~isNumberChar(char)
       THEN [done |-> FALSE, numberStr |-> numberStr, offset |-> offset]
       ELSE moveNumberFrom(pgn, offset + 1, Append(numberStr, char))

\* What parseMoveNumber returns once the loop has ended as `r`.
moveNumberOf(r) ==
    IF ~r.done \/ r.numberStr = <<>> \/ parseInt(r.numberStr).isNaN
    THEN [isNull |-> TRUE, number |-> 0, offset |-> r.offset]
    ELSE [isNull |-> FALSE, number |-> parseInt(r.numberStr).value, offset |-> r.offset]

parseMoveNumber(pgn, offset) ==
    moveNumberOf(moveNumberFrom(pgn, skipWhitespace(pgn, offset), <<>>))

\* maybeParseMoveComment once skipToChar('}') has answered `r`.
commentUpTo(pgn, commentStart, r) ==
    IF ~r.found THEN [comment |-> NoComment, offset |-> r.offset]
    ELSE [comment |-> trim(slice(pgn, commentStart, r.offset - 1)), offset |-> r.offset]

\* maybeParseMoveComment after its skipWhitespace.
commentAt(pgn, offset) ==
    IF peekChar(pgn, offset) # "{" THEN [comment |-> NoComment, offset |-> offset]
    ELSE commentUpTo(pgn, offset + 1, skipToChar(pgn, offset, "}"))

maybeParseMoveComment(pgn, offset) == commentAt(pgn, skipWhitespace(pgn, offset))

\* move.comment = comment ?? undefined
withComment(move, c) == [kind |-> "ok", move |-> move @@ [comment |-> c.comment],
                         offset |-> c.offset]

\* parsePieceMove once the word `w` is read and, for a word, `r` is what
\* calculateMoveFromAlgebraic(board, moveStr) returned.
pieceMoveOf(pgn, w, r) ==
    IF r.kind = "ok" THEN withComment(r.move, maybeParseMoveComment(pgn, w.offset))
    ELSE IF r.kind = "error"
    THEN [kind |-> "error", error |-> r.error, offset |-> w.offset]
    ELSE [kind |-> "throw", message |-> r.message, offset |-> w.offset]

pieceMoveAt(pgn, board, w) ==
    IF w.str = <<>> THEN [kind |-> "null", offset |-> w.offset]
    ELSE pieceMoveOf(pgn, w, calculateMoveFromAlgebraic(board, w.str))

parsePieceMove(pgn, offset, board) ==
    pieceMoveAt(pgn, board, consumeUntilWhiteSpace(pgn, skipWhitespace(pgn, offset)))

\* The parser between two steps: the cursor, the comment and variation
\* scopes, the Position replayed so far, and where the parse stands: "loop"
\* at the test of the while loop, "exit" after a break, "returned", "thrown".
\* The line and lineOffset counters only feed the error messages, which are
\* modelled without their location.
parserAt(offset, comment, variationLevel, b, status, message) ==
    [offset |-> offset, comment |-> comment, variationLevel |-> variationLevel,
     board |-> b, status |-> status, message |-> message]

thrown(st, message) == [st EXCEPT !.status = "thrown", !.message = message]

\* parse() down to the while loop: parseMetadata, then parseFen of the FEN
\* tag or of INITIAL_FEN, `r` being what parseFen returned.
parserOn(offset, r) ==
    IF r.kind = "ok" THEN parserAt(offset, "none", 0, r.board, "loop", "")
    ELSE parserAt(offset, "none", 0, [moves |-> <<>>], "thrown", r.message)

parserAfter(meta) == parserOn(meta.offset, parseFen(startFenOf(meta.tags)))

parserStart(pgn) == parserAfter(parseMetadata(pgn))

\* A variant that keeps replaying from the Position it started with.
applied_SameBoard(st, offset, r) ==
    IF r.kind = "ok" THEN [st EXCEPT !.offset = offset]
    ELSE thrown([st EXCEPT !.offset = offset], r.message)

\* board = applyMove(board, move), `r` being what applyMove returned.
applied(st, offset, r) ==
    IF r.kind = "ok" THEN [st EXCEPT !.offset = offset, !.board = r.board]
    ELSE thrown([st EXCEPT !.offset = offset], r.message)

\* The Black half of a move pair, `m` being what parsePieceMove returned.
blackMove(pgn, st, m) ==
    IF m.kind = "throw" THEN thrown([st EXCEPT !.offset = m.offset], m.message)
    ELSE IF m.kind = "error"
    THEN thrown([st EXCEPT !.offset = m.offset], "Failed to parse black move")
    ELSE IF m.kind = "null"
    THEN (IF hasMoreChars(pgn, skipWhitespace(pgn, m.offset))
          THEN thrown([st EXCEPT !.offset = skipWhitespace(pgn, m.offset)],
                      "expected black move or end of moves")
          ELSE [st EXCEPT !.offset = skipWhitespace(pgn, m.offset), !.status = "exit"])
    ELSE applied(st, m.offset, applyMove(st.board, m.move))

\* ... once the White move is applied.
afterWhite(pgn, st) ==
    IF st.status = "thrown" THEN st
    ELSE blackMove(pgn, st, parsePieceMove(pgn, st.offset, st.board))

\* The White half, `m` being what parsePieceMove returned.
whiteMove(pgn, st, m) ==
    IF m.kind = "throw" THEN thrown([st EXCEPT !.offset = m.offset], m.message)
    ELSE IF m.kind = "error"
    THEN thrown([st EXCEPT !.offset = m.offset], "Failed to parse white move")
    ELSE IF m.kind = "null"
    THEN thrown([st EXCEPT !.offset = m.offset], "Failed to parse move")
    ELSE afterWhite(pgn, applied(st, m.offset, applyMove(st.board, m.move)))

\* From parseMoveNumber to the end of the loop body, `n` being the number.
movePair(pgn, st, n) ==
    IF n.isNull THEN [st EXCEPT !.offset = n.offset, !.status = "exit"]
    ELSE whiteMove(pgn, st, parsePieceMove(pgn, n.offset, st.board))

\* The loop body with a `continue` that leaves a separator where it is.
loopBody_SeparatorKept(pgn, st, char) ==
    IF st.comment # "none"
    THEN [st EXCEPT !.offset = @ + 1,
                    !.comment = IF \/ (char = "\n" /\ st.comment = "line")
                                   \/ (char = "}" /\ st.comment = "multiline")
                                THEN "none" ELSE @]
    ELSE IF char = "("
    THEN [st EXCEPT !.offset = @ + 1, !.variationLevel = @ + 1]
    ELSE IF st.variationLevel > 0 /\ char = ")"
    THEN [st EXCEPT !.offset = @ + 1, !.variationLevel = @ - 1]
    ELSE IF char = "{" THEN [st EXCEPT !.offset = @ + 1, !.comment = "multiline"]
    ELSE IF char = ";" THEN [st EXCEPT !.offset = @ + 1, !.comment = "line"]
    ELSE IF char = ")" THEN thrown(st, "Unmatched closing parenthesis in PGN string")
    ELSE IF char = "}" THEN thrown(st, "Unmatched closing bracket in PGN string")
    ELSE IF char \in {".", " ", "\n", "\r"} THEN st
    ELSE movePair(pgn, st, parseMoveNumber(pgn, st.offset))

\* One pass through the body of the while loop, `char` being pgn[offset].
loopBody(pgn, st, char) ==
    IF st.comment # "none"
    THEN [st EXCEPT !.offset = @ + 1,
                    !.comment = IF \/ (char = "\n" /\ st.comment = "line")
                                   \/ (char = "}" /\ st.comment = "multiline")
                                THEN "none" ELSE @]
    ELSE IF char = "("
    THEN [st EXCEPT !.offset = @ + 1, !.variationLevel = @ + 1]
    ELSE IF st.variationLevel > 0 /\ char = ")"
    THEN [st EXCEPT !.offset = @ + 1, !.variationLevel = @ - 1]
    ELSE IF char = "{" THEN [st EXCEPT !.offset = @ + 1, !.comment = "multiline"]
    ELSE IF char = ";" THEN [st EXCEPT !.offset = @ + 1, !.comment = "line"]
    ELSE IF char = ")" THEN thrown(st, "Unmatched closing parenthesis in PGN string")
    ELSE IF char = "}" THEN thrown(st, "Unmatched closing bracket in PGN string")
    ELSE IF char \in {".", " ", "\n", "\r"} THEN [st EXCEPT !.offset = @ + 1]
    ELSE movePair(pgn, st, parseMoveNumber(pgn, st.offset))

\* The statements after the loop.
loopExit(st) ==
    IF st.variationLevel > 0
    THEN thrown(st, "Unmatched opening parenthesis in PGN string")
    ELSE IF st.comment = "multiline"
    THEN thrown(st, "Unmatched opening bracket in PGN string")
    ELSE [st EXCEPT !.status = "returned"]

inLoop(pgn, st) == st.status = "loop" /\ hasMoreChars(pgn, st.offset)
atExit(pgn, st) == st.status = "exit" \/ (st.status = "loop" /\ ~hasMoreChars(pgn, st.offset))

\* parse() from a parser state to its return or throw.
RECURSIVE parseFrom(_, _)
parseFrom(pgn, st) ==
    IF inLoop(pgn, st) THEN parseFrom(pgn, loopBody(pgn, st, pgn[st.offset + 1]))
    ELSE IF atExit(pgn, st) THEN loopExit(st)
    ELSE st

\* What parse() hands back: board.moves, or the Error thrown.
parseResult(st) ==
    IF st.status = "returned" THEN [kind |-> "ok", moves |-> st.board.moves]
    ELSE Throw(st.message)

parsePGNMoves(pgn) == parseResult(parseFrom(pgn, parserStart(pgn)))

\* ------------------------------------------------------------- parsed texts
\* pgn.ts:281-290 (trimmed)
londonSystemPgn ==
    <<"[", "N", "a", "m", "e", " ", "\"", "L", "o", "n", "d", "o", "n", " ",
      "S", "y", "s", "t", "e", "m", "\"", "]", "\n", "1", ".", " ", "d", "4",
      " ", "{", "Q", "u", "e", "e", "n", "'", "s", " ", "P", "a", "w", "n",
      " ", "O", "p", "e", "n", "i", "n", "g", "}", " ", "d", "5", " ", "{",
      "B", "l", "a", "c", "k", " ", "r", "e", "s", "p", "o", "n", "d", "s",
      " ", "w", "i", "t", "h", " ", "Q", "u", "e", "e", "n", "'", "s", " ",
      "P", "a", "w", "n", " ", "D", "e", "f", "e", "n", "s", "e", "}", "\n",
      "2", ".", " ", "c", "4", " ", "{", "B", "e", "s", "t", " ", "m", "o",
      "v", "e", ":", " ", "T", "a", "k", "i", "n", "g", " ", "c", "o", "n",
      "t", "r", "o", "l", " ", "o", "f", " ", "t", "h", "e", " ", "c", "e",
      "n", "t", "e", "r", "}", " ", "c", "6", "\n", "3", ".", " ", "N", "f",
      "3", " ", "{", "D", "e", "v", "e", "l", "o", "p", "i", "n", "g", " ",
      "k", "n", "i", "g", "h", "t", " ", "t", "o", " ", "f", "3", "}", " ",
      "N", "f", "6", "\n", "4", ".", " ", "N", "c", "3", " ", "{", "D", "e",
      "v", "e", "l", "o", "p", "i", "n", "g", " ", "k", "n", "i", "g", "h",
      "t", " ", "t", "o", " ", "c", "3", "}", " ", "e", "6", "\n", "5", ".",
      " ", "B", "g", "5", " ", "{", "D", "e", "v", "e", "l", "o", "p", "i",
      "n", "g", " ", "b", "i", "s", "h", "o", "p", " ", "t", "o", " ", "g",
      "5", ",", " ", "p", "i", "n", "n", "i", "n", "g", " ", "t", "h", "e",
      " ", "k", "n", "i", "g", "h", "t", "}", " ", "N", "b", "d", "7", "\n",
      "6", ".", " ", "e", "3", " ", "{", "S", "u", "p", "p", "o", "r", "t",
      "i", "n", "g", " ", "t", "h", "e", " ", "d", "4", " ", "p", "a", "w",
      "n", " ", "a", "n", "d", " ", "p", "r", "e", "p", "a", "r", "i", "n",
      "g", " ", "t", "o", " ", "d", "e", "v", "e", "l", "o", "p", " ", "t",
      "h", "e", " ", "d", "a", "r", "k", "-", "s", "q", "u", "a", "r", "e",
      "d", " ", "b", "i", "s", "h", "o", "p", "}", " ", "B", "e", "7", "\n",
      "7", ".", " ", "B", "d", "3", " ", "{", "D", "e", "v", "e", "l", "o",
      "p", "i", "n", "g", " ", "b", "i", "s", "h", "o", "p", " ", "t", "o",
      " ", "d", "3", ",", " ", "a", "i", "m", "i", "n", "g", " ", "a", "t",
      " ", "h", "7", "}", " ", "O", "-", "O">>

\* pgn.ts:292-308 (trimmed)
fullTestPgn ==
    <<"[", "N", "a", "m", "e", " ", "\"", "F", "u", "l", "l", " ", "t", "e",
      "s", "t", " ", "f", "o", "r", " ", "P", "G", "N", " ", "f", "o", "r",
      "m", "a", "t", "\"", "]", "\n", "1", ".", " ", "a", "4", " ", "h", "5",
      "\n", "2", ".", " ", "a", "5", " ", "h", "4", "\n", "3", ".", " ", "a",
      "6", " ", "h", "3", "\n", "4", ".", " ", "a", "x", "b", "7", " ", "h",
      "x", "g", "2", "\n", "5", ".", " ", "b", "x", "a", "8", "=", "Q", " ",
      "g", "x", "h", "1", "=", "Q", "\n", "6", ".", " ", "e", "4", " ", "e",
      "6", "\n", "7", ".", " ", "e", "5", " ", "d", "5", "\n", "8", ".", " ",
      "e", "x", "d", "6", " ", "B", "x", "d", "6", "\n", "9", ".", " ", "N",
      "c", "3", " ", "N", "f", "6", "\n", "1", "0", ".", " ", "d", "4", " ",
      "O", "-", "O", "\n", "1", "1", ".", " ", "Q", "d", "3", " ", "N", "c",
      "6", "\n", "1", "2", ".", " ", "B", "e", "3", " ", "B", "b", "4", "\n",
      "1", "3", ".", " ", "O", "-", "O", "-", "O", " ", "B", "x", "c", "3",
      "\n", "1", "4", ".", " ", "Q", "x", "c", "3", " ", "Q", "x", "h", "2">>

\* 1. e4 e5 2. Nf3 Nc6 3. Bb5 a6 (Scenario D and its continuation)
GameOpen ==
    <<<<"e", "4">>, <<"e", "5">>, <<"N", "f", "3">>, <<"N", "c", "6">>,
      <<"B", "b", "5">>, <<"a", "6">>>>

\* the moves of londonSystemPgn
GameLondon ==
    <<<<"d", "4">>, <<"d", "5">>, <<"c", "4">>, <<"c", "6">>,
      <<"N", "f", "3">>, <<"N", "f", "6">>>>

\* the moves of fullTestPgn
GameFull ==
    <<<<"a", "4">>, <<"h", "5">>, <<"a", "5">>, <<"h", "4">>, <<"a", "6">>,
      <<"h", "3">>>>

\* The recorded games movetexts are cut from.
Games == {GameOpen, GameLondon, GameFull}

\* `N.` in front of a White move: token i (1-based) opens pair (i + 1) / 2.
numberWord(i) == numberToText((i + 1) \div 2) \o <<".">>

\* The words of tokens first..last as numbered move pairs: `1.`, `e4`, `e5`,
\* `2.`, `Nf3`, ...
RECURSIVE movetextWords(_, _, _)
movetextWords(tokens, first, last) ==
    IF first > last THEN <<>>
    ELSE (IF first % 2 = 1 THEN <<numberWord(first), tokens[first]>>
                           ELSE <<tokens[first]>>)
         \o movetextWords(tokens, first + 1, last)

\* `1. e4 e5 2. Nf3 Nc6`
movetext(tokens) == join(movetextWords(tokens, 1, Len(tokens)), " ")

\* The movetext with `extra` words standing after the first k tokens.
movetextWith(tokens, k, extra) ==
    join(movetextWords(tokens, 1, k) \o extra
            \o movetextWords(tokens, k + 1, Len(tokens)), " ")

\* The first n moves of each game.
MoveLists == {SubSeq(g, 1, n) : g \in Games, n \in 1..MaxTokens}

PlainTexts == {movetext(tokens) : tokens \in MoveLists}

\* Parenthesised variations: `(1. d4 d5)`, `( 1. d4 d5 )`, `(1... c5)`.
Variations ==
    {<<<<"(", "1", ".">>, <<"d", "4">>, <<"d", "5", ")">>>>,
     <<<<"(">>, <<"1", ".">>, <<"d", "4">>, <<"d", "5">>, <<")">>>>,
     <<<<"(", "1", ".", ".", ".">>, <<"c", "5", ")">>>>}

VariationTexts ==
    {movetextWith(tokens, k, v) :
        <<tokens, k, v>> \in {c \in MoveLists \X (0..MaxTokens) \X Variations :
                                c[2] <= Len(c[1])}}

\* Words that stand where a move number is expected and are not one.
BadNumbers == {<<"2", "a", ".">>, <<"N", ".">>, <<"t", "w", "o", ".">>}

\* The second move number is left out (`1. e4 e5 Nf3`), or is not a number.
BadNumberTexts ==
    {join(movetextWords(tokens, 1, 2) \o SubSeq(tokens, 3, Len(tokens)), " ") :
        tokens \in {t \in MoveLists : Len(t) >= 3}}
    \cup {join(movetextWords(tokens, 1, 2) \o <<bad>> \o SubSeq(tokens, 3, Len(tokens)),
               " ") :
            <<tokens, bad>> \in {c \in MoveLists \X BadNumbers : Len(c[1]) >= 3}}

\* Scopes left open at the end of the text: a variation, a comment before
\* the first move number, a comment that follows a move token.
OpenVariation == <<" ", "(", "1", ".", " ", "d", "4">>
OpenComment == <<"{", "n", "o", "t", "e">>

UnclosedTexts ==
    UNION {{movetext(tokens) \o <<" ", "(">>,
            movetext(tokens) \o OpenVariation,
            OpenComment \o <<" ">> \o movetext(tokens),
            movetext(tokens) \o <<" ">> \o OpenComment} : tokens \in MoveLists}

\* [FEN "..."] and a line break in front of a movetext.
fenTagged(fen, text) ==
    <<"[", "F", "E", "N", " ", "\"">> \o fen \o <<"\"", "]", "\n">> \o text

\* [Event "Game"] and a line break in front of a movetext.
eventTagged(text) ==
    <<"[", "E", "v", "e", "n", "t", " ", "\"", "G", "a", "m", "e", "\"", "]", "\n">>
    \o text

\* Games that start from a loaded position: a double step answered en
\* passant; castling on both wings; a move of the black knight.
FenGames ==
    {<<FenEnPassant, <<<<"e", "4">>, <<"d", "x", "e", "3">>>>>>,
     <<FenCastling, <<<<"O", "-", "O">>, <<"O", "-", "O", "-", "O">>>>>>,
     <<FenBlackToMove, <<<<"N", "f", "4">>>>>>}

FenTaggedTexts == {fenTagged(c[1], movetext(c[2])) : c \in FenGames}

EventTaggedTexts == {eventTagged(movetext(tokens)) : tokens \in MoveLists}

\* Comments that follow a move token, as the words that stand after it and
\* the comment text they hold: `{good}`, `{ ok }`, and `{a} {b}`, two
\* comments of which the first follows the move.
MoveComments ==
    {[words |-> <<<<"{", "g", "o", "o", "d", "}">>>>, text |-> <<"g", "o", "o", "d">>],
     [words |-> <<<<"{">>, <<"o", "k">>, <<"}">>>>, text |-> <<"o", "k">>],
     [words |-> <<<<"{", "a", "}">>, <<"{", "b", "}">>>>, text |-> <<"a">>]}

\* The movetext with the comment `{good}` written right after token k, no
\* white space between the two.
movetextGlued(tokens, k) ==
    movetext([tokens EXCEPT ![k] = @ \o <<"{", "g", "o", "o", "d", "}">>])

\* <<tokens, k, text, comment>>: the movetext `text` is `tokens` with a
\* comment reading `comment` behind token k.
CommentCases ==
    {<<c[1], c[2], movetextWith(c[1], c[2], c[3].words), c[3].text>> :
        c \in {d \in MoveLists \X (1..MaxTokens) \X MoveComments : d[2] <= Len(d[1])}}
    \cup {<<c[1], c[2], movetextGlued(c[1], c[2]), <<"g", "o", "o", "d">>>> :
             c \in {d \in MoveLists \X (1..MaxTokens) : d[2] <= Len(d[1])}}

CommentedTexts == {c[3] : c \in CommentCases}

\* The texts parsePGNMoves is given.
PgnTexts ==
    {fullTestPgn, londonSystemPgn} \cup PlainTexts \cup VariationTexts
    \cup BadNumberTexts \cup UnclosedTexts \cup FenTaggedTexts \cup EventTaggedTexts
    \cup CommentedTexts

\* ------------------------------------------------------------ state machine
VARIABLES
    board,          \* boardInfo: the Position last returned by parseFen / applyMove
    startFen,       \* the FEN text the game was loaded from
    currentFenStr,  \* the page's current FEN text
    request         \* the last call made on the core and what it returned

vars == <<board, startFen, currentFenStr, request>>

\* Before any request: nothing asked, nothing rejected.
NoRequest == [op |-> "none", result |-> [kind |-> "ok"]]

\* The page as it opens: currentFenStr = INITIAL_FEN,
\* boardInfo = parseFen(INITIAL_FEN).
Init ==
    /\ startFen = INITIAL_FEN
    /\ board = parseFen(INITIAL_FEN).board
    /\ currentFenStr = INITIAL_FEN
    /\ request = NoRequest

\* The last thing that happened is a load or an applied move.  A request
\* that applies no move leaves the Position as it was, so a run is not
\* followed beyond it: every continuation is a continuation of the state
\* before the request.
Idle == request.op \in {"none", "drop"}

PlyLimit == IF startFen = INITIAL_FEN THEN OpeningPly
            ELSE IF startFen \in ProbeFens THEN ProbePly
            ELSE MaxPly

\* Another FEN text is entered: the page keeps it and parses it.  What a
\* load leaves does not depend on the game played before it, so loads are
\* followed from Positions no move has been applied to.
onFenChange(fenStr) ==
    /\ Idle
    /\ board.moves = <<>>
    /\ currentFenStr # fenStr
    /\ currentFenStr' = fenStr
    /\ board' = parseFen(fenStr).board
    /\ startFen' = fenStr
    /\ request' = NoRequest

\* A piece of the side to move is dropped on another square and the move is
\* accepted: handleDragDroppedOnTarget, then onMove.
Drop ==
    /\ Idle
    /\ Len(board.moves) < PlyLimit
    /\ \E from \in Position, to \in Position :
          /\ from # to
          /\ board.pieces[from] # Undefined
          /\ getPieceColor(board.pieces[from]) = board.turnColor
          /\ \E r \in {calculateMove(board, from, to, Undefined, FALSE)} :
                /\ r.kind = "ok"
                /\ board' = applyMove(board, r.move).board
                /\ currentFenStr' = boardToFen(board')
                /\ request' = [op |-> "drop", from |-> from, to |-> to, result |-> r]
    /\ UNCHANGED startFen

\* calculateMove(board, from, to) is asked for a move of the piece on `from`
\* and returns a MoveError: nothing is applied.
Rejected ==
    /\ Idle
    /\ Len(board.moves) <= ProbePly
    /\ \E from \in Position, to \in Position :
          /\ board.pieces[from] # Undefined
          /\ \E r \in {calculateMove(board, from, to, Undefined, FALSE)} :
                /\ r.kind # "ok"
                /\ request' = [op |-> "calculateMove", from |-> from, to |-> to,
                               result |-> r]
    /\ UNCHANGED <<board, startFen, currentFenStr>>

\* ------------------------------------------------- requested algebraic texts
\* Disambiguation prefixes tried for a piece letter: none, and the file, the
\* rank and the square of every friendly piece of that letter.
disambiguations(b, letter) ==
    LET piece == algebraicPieceCharToPieceId(letter, b.turnColor = PlayerColor.WHITE)
        at == {s \in Position : b.pieces[s] = piece}
    IN {<<>>} \cup {<<s[1]>> : s \in at} \cup {<<s[2]>> : s \in at} \cup at

\* Piece-letter texts of the grammar
\* <PIECE>[<file>|<rank>|<file><rank>]['x']<file><rank>[+#].
PieceTexts(b) ==
    UNION {{<<letter>> \o t[1] \o t[2] \o t[3] \o t[4] :
               t \in {u \in disambiguations(b, letter) \X {<<>>, <<"x">>}
                            \X Position \X {<<>>, <<"+">>} :
                        u[4] = <<>> \/ u[1] = <<>>}}
           : letter \in {"N", "B", "R", "Q", "K"}}

\* The texts moveToAlgebraic renders for the moves the Position allows.
LegalMoves(b) ==
    {calculateMove(b, from, to, Undefined, FALSE).move :
        <<from, to>> \in {p \in (DOMAIN b.allowedMoves) \X Position :
                            p[2] \in b.allowedMoves[p[1]]}}

RenderedTexts(b) == {moveToAlgebraic(m) : m \in LegalMoves(b)}

\* Castling texts, with and without a suffix.
CastlingTexts ==
    {KING_SIDE_CASTLING_STR, QUEEN_SIDE_CASTLING_STR,
     KING_SIDE_CASTLING_STR \o <<"+">>, QUEEN_SIDE_CASTLING_STR \o <<"#">>,
     KING_SIDE_CASTLING_STR \o <<"x">>}

\* Pawn texts <file><rank> and <file>x<file><rank>, the capture file being
\* the destination file or one of its neighbours.
PawnTexts ==
    Position
    \cup {<<f, "x">> \o to : <<f, to>> \in {c \in FileSet \X Position :
                                             Abs(FileIndexOf[c[1]] - fileIndex(c[2])) <= 1}}

\* A destination, with or without a piece letter, followed by a character
\* that is neither a promotion nor a check or mate suffix.
LeftoverTexts ==
    {to \o <<"!">> : to \in Position}
    \cup {<<letter>> \o to \o <<"!">> : <<letter, to>> \in {"N", "B", "R", "Q", "K"} \X Position}
    \cup {to \o <<"+", "+">> : to \in Position}

\* Pawn texts with a promotion, <file><rank>=N, for every destination.
PromotionTexts == {to \o <<"=", "N">> : to \in Position}

AlgebraicTexts(b) ==
    PieceTexts(b) \cup RenderedTexts(b) \cup CastlingTexts \cup PawnTexts \cup LeftoverTexts
    \cup PromotionTexts

\* calculateMoveFromAlgebraic(board, text) is asked; nothing is applied.
\* Algebraic requests are made between moves, early in a game.
ParseAlgebraic ==
    /\ Idle
    /\ Len(board.moves) <= ProbePly
    /\ \E text \in AlgebraicTexts(board) :
          request' = [op |-> "calculateMoveFromAlgebraic", text |-> text,
                      result |-> calculateMoveFromAlgebraic(board, text)]
    /\ UNCHANGED <<board, startFen, currentFenStr>>

\* Positions whose legal moves are kept by a caller while the board moves on.
StaleFens == {INITIAL_FEN, FenCastling, FenEnPassant, FenCastleG1}

\* Moves computed against those Positions.
StaleMoves == UNION {LegalMoves(parseFen(f).board) : f \in StaleFens}

\* applyMove(board, move) is called with a Move that was computed against
\* some Position, the current one or another; the caller keeps `board`.
applyMove_call ==
    /\ Idle
    /\ Len(board.moves) <= ProbePly
    /\ \E move \in StaleMoves :
          \E r \in {applyMove(board, move)} :
             /\ request' = [op |-> "applyMove", move |-> move, result |-> r]
             /\ board' = argumentAfter(board, r)
    /\ UNCHANGED <<startFen, currentFenStr>>

\* parsePGNMoves(pgn) is called as the page opens: parse() runs down to its
\* while loop.
parsePGNMoves_call(pgn) ==
    /\ request = NoRequest
    /\ currentFenStr = INITIAL_FEN
    /\ board.moves = <<>>
    /\ request' = [op |-> "parsePGNMoves", pgn |-> pgn, parser |-> parserStart(pgn)]
    /\ UNCHANGED <<board, startFen, currentFenStr>>

Parsing == request.op = "parsePGNMoves"

\* One pass through the body of the while loop of parse().
parse_loop ==
    /\ Parsing
    /\ inLoop(request.pgn, request.parser)
    /\ request' = [request EXCEPT
                      !.parser = loopBody(request.pgn, @,
                                          request.pgn[request.parser.offset + 1])]
    /\ UNCHANGED <<board, startFen, currentFenStr>>

\* The loop is left: the scopes are checked and board.moves is returned.
parse_exit ==
    /\ Parsing
    /\ atExit(request.pgn, request.parser)
    /\ request' = [request EXCEPT !.parser = loopExit(@)]
    /\ UNCHANGED <<board, startFen, currentFenStr>>

\* A game from the initial position, as the squares of each move: the black
\* queen takes the pawn on b2, the rook on a1 and the pawn on a2, the black
\* king walks to a1, White keeps king and queen-side right and castles.
\* 1. c4 e6 2. Qc2 Qf6 3. Qxh7 Qxb2 4. d3 Qxa1 5. Bh6 Qxa2 6. Nh3 Qa6
\* 7. Ng1 Ke7 8. Nh3 Kd6 9. Ng1 Kc5 10. Nh3 Kb4 11. Ng1 Kb3 12. Nh3 Ka2
\* 13. Ng1 Ka1 14. O-O-O
RecordedGame ==
    <<<<<<"c", "2">>, <<"c", "4">>>>, <<<<"e", "7">>, <<"e", "6">>>>,
      <<<<"d", "1">>, <<"c", "2">>>>, <<<<"d", "8">>, <<"f", "6">>>>,
      <<<<"c", "2">>, <<"h", "7">>>>, <<<<"f", "6">>, <<"b", "2">>>>,
      <<<<"d", "2">>, <<"d", "3">>>>, <<<<"b", "2">>, <<"a", "1">>>>,
      <<<<"c", "1">>, <<"h", "6">>>>, <<<<"a", "1">>, <<"a", "2">>>>,
      <<<<"g", "1">>, <<"h", "3">>>>, <<<<"a", "2">>, <<"a", "6">>>>,
      <<<<"h", "3">>, <<"g", "1">>>>, <<<<"e", "8">>, <<"e", "7">>>>,
      <<<<"g", "1">>, <<"h", "3">>>>, <<<<"e", "7">>, <<"d", "6">>>>,
      <<<<"h", "3">>, <<"g", "1">>>>, <<<<"d", "6">>, <<"c", "5">>>>,
      <<<<"g", "1">>, <<"h", "3">>>>, <<<<"c", "5">>, <<"b", "4">>>>,
      <<<<"h", "3">>, <<"g", "1">>>>, <<<<"b", "4">>, <<"b", "3">>>>,
      <<<<"g", "1">>, <<"h", "3">>>>, <<<<"b", "3">>, <<"a", "2">>>>,
      <<<<"h", "3">>, <<"g", "1">>>>, <<<<"a", "2">>, <<"a", "1">>>>,
      <<<<"e", "1">>, <<"c", "1">>>>>>

\* The next move of the recorded game is dropped on the board and accepted:
\* handleDragDroppedOnTarget, then onMove.
DropRecorded ==
    /\ Idle
    /\ startFen = INITIAL_FEN
    /\ Len(board.moves) < Len(RecordedGame)
    /\ \A i \in 1..Len(board.moves) :
          <<board.moves[i].from, board.moves[i].to>> = RecordedGame[i]
    /\ \E step \in {RecordedGame[Len(board.moves) + 1]} :
          \E r \in {calculateMove(board, step[1], step[2], Undefined, FALSE)} :
             /\ r.kind = "ok"
             /\ board' = applyMove(board, r.move).board
             /\ currentFenStr' = boardToFen(board')
             /\ request' = [op |-> "drop", from |-> step[1], to |-> step[2], result |-> r]
    /\ UNCHANGED startFen

\* Promotion choices handed to calculateMove: none, a piece of White, a
\* piece of Black.
PromotionChoices == {Undefined, "N", "r"}

\* calculateMove(board, from, to, promotionPiece) is asked for a move of a
\* piece of the side to move and returns a Move: nothing is applied.
calculateMove_call ==
    /\ Idle
    /\ Len(board.moves) <= ProbePly
    /\ \E from \in {s \in Position : /\ board.pieces[s] # Undefined
                                      /\ getPieceColor(board.pieces[s]) = board.turnColor},
          to \in Position, promotionPiece \in PromotionChoices :
          \E r \in {calculateMove(board, from, to, promotionPiece, FALSE)} :
             /\ r.kind = "ok"
             /\ request' = [op |-> "calculateMove", from |-> from, to |-> to,
                            promotionPiece |-> promotionPiece, result |-> r]
    /\ UNCHANGED <<board, startFen, currentFenStr>>

\* parseFen(fen) is called on a text and returns a Position or throws.
parseFen_call(fen) ==
    /\ Idle
    /\ board.moves = <<>>
    /\ request' = [op |-> "parseFen", text |-> fen, result |-> parseFen(fen)]
    /\ UNCHANGED <<board, startFen, currentFenStr>>

\* What the call of parseFen left, without the Position.
outcomeOf(r) == IF r.kind = "ok" THEN [kind |-> "ok"] ELSE r

\* The FEN input holds newValue when its debounce fires: validateFen, and
\* for a text it accepts onChange, that is onFenChange of the page.  A throw
\* of parseFen leaves boardInfo as it was, after currentFenStr was assigned.
debouncedValidate(newValue) ==
    /\ Idle
    /\ board.moves = <<>>
    /\ IF ~validateFen(newValue) \/ currentFenStr = newValue
       THEN /\ request' = [op |-> "debouncedValidate", text |-> newValue,
                           isValid |-> validateFen(newValue),
                           result |-> [kind |-> "none"]]
            /\ UNCHANGED <<board, startFen, currentFenStr>>
       ELSE \E r \in {parseFen(newValue)} :
               /\ currentFenStr' = newValue
               /\ board' = IF r.kind = "ok" THEN r.board ELSE board
               /\ startFen' = IF r.kind = "ok" THEN newValue ELSE startFen
               /\ request' = [op |-> "debouncedValidate", text |-> newValue,
                              isValid |-> TRUE, result |-> outcomeOf(r)]

\* ----------------------------------------------------------- specifications
\* A game played on the board.
Next ==
    \/ \E fenStr \in StartFens : onFenChange(fenStr)
    \/ Drop

Spec == Init /\ [][Next]_vars

\* A game, with rejected move requests.
NextCalc ==
    \/ \E fenStr \in StartFens : onFenChange(fenStr)
    \/ Drop
    \/ Rejected

SpecCalc == Init /\ [][NextCalc]_vars

\* A game, with moves asked for in algebraic text.
NextAlg ==
    \/ \E fenStr \in StartFens : onFenChange(fenStr)
    \/ Drop
    \/ ParseAlgebraic

SpecAlg == Init /\ [][NextAlg]_vars

\* A game, with applyMove called on a Move kept from another Position.
NextApply ==
    \/ \E fenStr \in StartFens : onFenChange(fenStr)
    \/ Drop
    \/ applyMove_call

SpecApply == Init /\ [][NextApply]_vars

\* The page opens and parses a PGN text.
NextPgn ==
    \/ \E pgn \in PgnTexts : parsePGNMoves_call(pgn)
    \/ parse_loop
    \/ parse_exit

SpecPgn == Init /\ [][NextPgn]_vars

\* Games, and the recorded game played to its end.
NextGame ==
    \/ \E fenStr \in StartFens : onFenChange(fenStr)
    \/ Drop
    \/ DropRecorded

SpecGame == Init /\ [][NextGame]_vars

\* A game, with moves asked for with a promotion choice.
NextChoice ==
    \/ \E fenStr \in StartFens : onFenChange(fenStr)
    \/ Drop
    \/ calculateMove_call

SpecChoice == Init /\ [][NextChoice]_vars

\* FEN texts are typed into the FEN input and given to parseFen.
NextFen ==
    \/ \E fen \in FenInputs : parseFen_call(fen)
    \/ \E newValue \in FenInputs : debouncedValidate(newValue)

SpecFen == Init /\ [][NextFen]_vars

\* ================================================================ properties
\* The king of a colour.
kingOf(color) == IF color = PlayerColor.WHITE THEN "K" ELSE "k"

\* Some piece of the colour to move in `b` can reach `target` under the
\* piece shape rules.
canBeReached(b, target) ==
    \E from \in Position :
        /\ b.pieces[from] # Undefined
        /\ getPieceColor(b.pieces[from]) = b.turnColor
        /\ from # target
        /\ validateByPiece(b, from, target, b.pieces[from]).isValid

lastMove == board.moves[Len(board.moves)]

isTwoStep(m) == isPawn(m.piece) /\ Abs(rankIndex(m.from) - rankIndex(m.to)) = 2

\* C1 -- FEN round trip: for every Position p returned by parseFen or
\* applyMove, parseFen(boardToFen(p)) succeeds and has p's piece placement,
\* side to move, castling rights, en-passant target, half-move clock and
\* full-move number.
C1_FenRoundTrip ==
    LET r == parseFen(boardToFen(board))
    IN /\ r.kind = "ok"
       /\ r.board.pieces = board.pieces
       /\ r.board.turnColor = board.turnColor
       /\ r.board.canCastle = board.canCastle
       /\ r.board.enPassantTarget = board.enPassantTarget
       /\ r.board.halfMoveClock = board.halfMoveClock
       /\ r.board.fullMoveNumber = board.fullMoveNumber

\* C2 -- algebraic round trip: for every Move m that calculateMove returns
\* for a pair of the legal-destination mapping (either colour to move),
\* calculateMoveFromAlgebraic(position, moveToAlgebraic(m)) returns a Move
\* equal to m in from, to, piece, isCapture, castling and promotion.
C2_AlgebraicRoundTrip ==
    \A m \in LegalMoves(board) :
        LET r == calculateMoveFromAlgebraic(board, moveToAlgebraic(m))
        IN /\ r.kind = "ok"
           /\ r.move.from = m.from
           /\ r.move.to = m.to
           /\ r.move.piece = m.piece
           /\ r.move.isCapture = m.isCapture
           /\ r.move.castling = m.castling
           /\ r.move.promotion = m.promotion

\* C3 -- check safety: for every entry (s -> t) of the legal-destination
\* mapping of a Position returned by parseFen or applyMove, the Position
\* obtained by applying that move has the mover's king on a square that no
\* opposing piece can reach under the piece shape rules.
C3_CheckSafety ==
    \A s \in DOMAIN board.allowedMoves :
        \A t \in board.allowedMoves[s] :
            LET r == calculateMove(board, s, t, Undefined, FALSE)
                after == applyMoveCore(board, r.move)
                kingPos == findPositionFor(after.board.pieces, kingOf(board.turnColor))
            IN /\ r.kind = "ok"
               /\ after.kind = "ok"
               /\ kingPos # Null
               /\ ~canBeReached(after.board, kingPos)

\* A Position reached by a move in which the filter has kept some moves and
\* has withheld a move that the shape rules accept.
C3_Witness ==
    /\ Len(board.moves) > 0
    /\ DOMAIN board.allowedMoves # {}
    /\ \E s \in Position, t \in Position :
          /\ board.pieces[s] # Undefined
          /\ calculateMove(board, s, t, Undefined, TRUE).kind = "ok"
          /\ ~(s \in DOMAIN board.allowedMoves /\ t \in board.allowedMoves[s])

CastlingFlags == {"whiteKingSide", "whiteQueenSide", "blackKingSide", "blackQueenSide"}

\* Every move of the game so far has left its mark on the rights: a king
\* move or a castle, both flags of the mover; a rook leaving its own corner,
\* the flag of that wing.
rightsReflectMoves ==
    \A i \in 1..Len(board.moves) :
        LET m == board.moves[i]
        IN /\ (m.piece = "K" \/ (m.castling # Undefined /\ m.turn = PlayerColor.WHITE))
                => (~board.canCastle.whiteKingSide /\ ~board.canCastle.whiteQueenSide)
           /\ (m.piece = "k" \/ (m.castling # Undefined /\ m.turn = PlayerColor.BLACK))
                => (~board.canCastle.blackKingSide /\ ~board.canCastle.blackQueenSide)
           /\ (m.piece = "R" /\ m.from = <<"a", "1">>) => ~board.canCastle.whiteQueenSide
           /\ (m.piece = "R" /\ m.from = <<"h", "1">>) => ~board.canCastle.whiteKingSide
           /\ (m.piece = "r" /\ m.from = <<"a", "8">>) => ~board.canCastle.blackQueenSide
           /\ (m.piece = "r" /\ m.from = <<"h", "8">>) => ~board.canCastle.blackKingSide

\* A step that applies a move sets no flag that was false.
rightsNeverReturn ==
    board'.moves # <<>> =>
        \A f \in CastlingFlags : ~board.canCastle[f] => ~board'.canCastle[f]

\* C4 -- castling rights are monotone over any sequence of applyMove calls:
\* a flag that is false stays false in every later Position; after a move by
\* a king (or a completed castle) both flags of that side are false, and
\* after a move of a side's rook from its corner (a1/h1 for White, a8/h8 for
\* Black) the flag of that wing is false, in every subsequent Position.
C4_CastlingRightsMonotone == [][rightsNeverReturn]_vars /\ []rightsReflectMoves

\* White castled king-side, Black has answered: White's rights are gone,
\* Black's are still there.
C4_Witness ==
    /\ Len(board.moves) = 2
    /\ board.moves[1].castling = "king-side"
    /\ ~board.canCastle.whiteKingSide /\ ~board.canCastle.whiteQueenSide
    /\ board.canCastle.blackKingSide

\* C5 -- en-passant window: in every Position returned by applyMove the
\* en-passant target is non-null exactly when the move just applied was a
\* pawn advancing two ranks, and it is then the square the pawn passed over
\* (same file, rank 3 for White, rank 6 for Black); so one further applyMove
\* clears or replaces it.
C5_EnPassantWindow ==
    Len(board.moves) > 0 =>
        /\ (board.enPassantTarget # Null) <=> isTwoStep(lastMove)
        /\ isTwoStep(lastMove) =>
              /\ board.enPassantTarget =
                    <<lastMove.from[1],
                      IF lastMove.turn = PlayerColor.WHITE THEN "3" ELSE "6">>
              /\ getPositionsBetween(lastMove.from, lastMove.to)
                    = {board.enPassantTarget}

\* A double pawn step was answered by the en-passant capture, which cleared
\* the target.
C5_Witness ==
    /\ Len(board.moves) = 2
    /\ isTwoStep(board.moves[1])
    /\ board.moves[2].isEnPassantCapture
    /\ board.enPassantTarget = Null

\* rnbqkbnr/pppppppp/8/8/4P3/8/PPPP1PPP/RNBQKBNR b KQkq e3 0 1
ScenarioAFen ==
    <<"r", "n", "b", "q", "k", "b", "n", "r", "/", "p", "p", "p", "p", "p",
      "p", "p", "p", "/", "8", "/", "8", "/", "4", "P", "3", "/", "8", "/",
      "P", "P", "P", "P", "1", "P", "P", "P", "/", "R", "N", "B", "Q", "K",
      "B", "N", "R", " ", "b", " ", "K", "Q", "k", "q", " ", "e", "3", " ",
      "0", " ", "1">>

\* C6 -- scenario A: after parseFen(INITIAL_FEN) and the move e2 -> e4,
\* boardToFen of the resulting Position is exactly
\* `rnbqkbnr/pppppppp/8/8/4P3/8/PPPP1PPP/RNBQKBNR b KQkq e3 0 1`.
C6_ScenarioA ==
    (/\ startFen = INITIAL_FEN
     /\ Len(board.moves) = 1
     /\ lastMove.from = <<"e", "2">>
     /\ lastMove.to = <<"e", "4">>)
        => (currentFenStr = ScenarioAFen /\ boardToFen(board) = ScenarioAFen)

\* A placement rank decoded square by square: a digit stands for that many
\* empty squares.
RECURSIVE expandRank(_)
expandRank(row) ==
    IF row = <<>> THEN <<>>
    ELSE IF isNumberChar(Head(row))
    THEN [i \in 1..DigitValue[Head(row)] |-> Undefined] \o expandRank(Tail(row))
    ELSE <<Head(row)>> \o expandRank(Tail(row))

\* The placement field lists ranks 8 to 1, with every run of empty squares
\* written as one digit.
placementRenders(placement, pieces) ==
    LET rows == split(placement, "/")
    IN /\ Len(rows) = 8
       /\ \A k \in 1..8 :
             /\ expandRank(rows[k])
                   = [i \in 1..8 |-> pieces[<<BOARD_FILES[i], BOARD_RANKS[9 - k]>>]]
             /\ \A i \in 1..Len(rows[k]) :
                   isNumberChar(rows[k][i]) =>
                      /\ DigitValue[rows[k][i]] \in 1..8
                      /\ (i < Len(rows[k]) => ~isNumberChar(rows[k][i + 1]))

isDecimalOf(text, n) ==
    /\ Len(text) > 0
    /\ \A i \in 1..Len(text) : isNumberChar(text[i])
    /\ (Len(text) > 1 => text[1] # "0")
    /\ digitsValue(text, 1, 0) = n

\* C7 -- boardToFen always emits six space-separated fields: placement with
\* ranks 8 to 1 and empty-square runs as digits, side to move as the single
\* letter `w` or `b`, castling flags as the set letters in the order KQkq or
\* `-` when none is set, en-passant square or `-`, half-move clock,
\* full-move number.
C7_FenFormat ==
    LET fields == split(boardToFen(board), " ")
        flags == SelectSeq(<<"K", "Q", "k", "q">>,
                           LAMBDA c : \/ (c = "K" /\ board.canCastle.whiteKingSide)
                                      \/ (c = "Q" /\ board.canCastle.whiteQueenSide)
                                      \/ (c = "k" /\ board.canCastle.blackKingSide)
                                      \/ (c = "q" /\ board.canCastle.blackQueenSide))
    IN /\ Len(fields) = 6
       /\ placementRenders(fields[1], board.pieces)
       /\ fields[2] = (IF board.turnColor = PlayerColor.WHITE THEN <<"w">> ELSE <<"b">>)
       /\ fields[3] = (IF flags = <<>> THEN <<"-">> ELSE flags)
       /\ fields[4] = (IF board.enPassantTarget = Null THEN <<"-">>
                                                       ELSE board.enPassantTarget)
       /\ isDecimalOf(fields[5], board.halfMoveClock)
       /\ isDecimalOf(fields[6], board.fullMoveNumber)

\* C8 -- from parseFen(INITIAL_FEN) the legal-destination mapping holds
\* exactly 20 (origin, destination) pairs: two for each of the eight white
\* pawns, two for each of the two white knights, none for any other piece.
C8_InitialLegalMoves ==
    (startFen = INITIAL_FEN /\ board.moves = <<>>) =>
        /\ DOMAIN board.allowedMoves
              = {<<f, "2">> : f \in FileSet} \cup {<<"b", "1">>, <<"g", "1">>}
        /\ \A f \in FileSet : board.allowedMoves[<<f, "2">>] = {<<f, "3">>, <<f, "4">>}
        /\ board.allowedMoves[<<"b", "1">>] = {<<"a", "3">>, <<"c", "3">>}
        /\ board.allowedMoves[<<"g", "1">>] = {<<"f", "3">>, <<"h", "3">>}
        /\ Cardinality({p \in (DOMAIN board.allowedMoves) \X Position :
                           p[2] \in board.allowedMoves[p[1]]}) = 20

\* The starting position, as parseFen returned it, with its mapping filled.
C8_Witness ==
    /\ startFen = INITIAL_FEN
    /\ board.moves = <<>>
    /\ request = NoRequest
    /\ <<"e", "2">> \in DOMAIN board.allowedMoves
    /\ <<"e", "4">> \in board.allowedMoves[<<"e", "2">>]

\* The preconditions of C9 for a request from -> to on Position b.
offTheList(b, from, to) ==
    /\ b.pieces[from] # Undefined
    /\ getPieceColor(b.pieces[from]) = b.turnColor
    /\ ~(b.pieces[to] # Undefined /\ getPieceColor(b.pieces[to]) = b.turnColor)
    /\ ~(from \in DOMAIN b.allowedMoves /\ to \in b.allowedMoves[from])

\* C9 -- with the legality filter active, calculateMove(position, from, to)
\* returns InvalidPieceMove(piece) whenever `from` holds a piece of the side
\* to move, `to` does not hold a piece of the same colour and `to` is not in
\* the legal-destination list of `from`; e2 -> e5 from the initial position
\* returns InvalidPieceMove.
C9_OffTheListIsInvalid ==
    /\ Idle =>
          \A from \in Position, to \in Position :
              offTheList(board, from, to) =>
                  calculateMove(board, from, to, Undefined, FALSE)
                     = Err(InvalidPieceMove(board.pieces[from]))
    /\ (request.op = "calculateMove" /\ offTheList(board, request.from, request.to)) =>
          request.result = Err(InvalidPieceMove(board.pieces[request.from]))
    /\ (startFen = INITIAL_FEN /\ board.moves = <<>>) =>
          calculateMove(board, <<"e", "2">>, <<"e", "5">>, Undefined, FALSE)
             = Err(InvalidPieceMove("P"))

\* Scenario B has been asked on the starting position and was rejected.
C9_Witness ==
    /\ startFen = INITIAL_FEN
    /\ board.moves = <<>>
    /\ request = [op |-> "calculateMove", from |-> <<"e", "2">>, to |-> <<"e", "5">>,
                  result |-> Err(InvalidPieceMove("P"))]

\* A piece-letter text read by the grammar
\* <PIECE>[<file>|<rank>|<file><rank>]['x']<file><rank>[+#], from its end:
\* suffix, destination, capture mark; what is left is the disambiguation.
pieceTextParts(text) ==
    LET suffixed == text[Len(text)] \in {"+", "#"}
        core == IF suffixed THEN SubSeq(text, 1, Len(text) - 1) ELSE text
        pre == SubSeq(core, 2, Len(core) - 2)
        capture == Len(pre) > 0 /\ pre[Len(pre)] = "x"
    IN [letter |-> text[1],
        dis |-> IF capture THEN SubSeq(pre, 1, Len(pre) - 1) ELSE pre,
        capture |-> capture,
        to |-> SubSeq(core, Len(core) - 1, Len(core))]

isPieceText(text) ==
    /\ Len(text) >= 3
    /\ text[1] \in {"N", "B", "R", "Q", "K"}
    /\ LET parts == pieceTextParts(text)
       IN /\ parts.to \in Position
          /\ parts.dis \in ({<<>>} \cup Position \cup {<<f>> : f \in FileSet}
                                   \cup {<<r>> : r \in RankSet})
          \* a king text naming both the file and the rank of its origin is
          \* turned down as notation by design (pgn.ts:569-572)
          /\ text[1] = "K" => parts.dis \notin Position

matchesDisambiguation(dis, s) ==
    dis = <<>> \/ dis = <<s[1]>> \/ dis = <<s[2]>> \/ dis = s

\* The piece on s can reach `to` under its shape rule (a king: one step).
reaches(b, s, to) ==
    /\ s # to
    /\ IF b.pieces[s] \in {"K", "k"}
       THEN Abs(fileIndex(to) - fileIndex(s)) <= 1 /\ Abs(rankIndex(to) - rankIndex(s)) <= 1
       ELSE validateByPiece(b, s, to, b.pieces[s]).isValid

\* The candidates of a piece-letter text: friendly pieces of the letter's
\* type that match the disambiguation and can reach the destination.
candidates(b, parts) ==
    {s \in Position :
        /\ b.pieces[s] = algebraicPieceCharToPieceId(parts.letter,
                                                     b.turnColor = PlayerColor.WHITE)
        /\ matchesDisambiguation(parts.dis, s)
        /\ reaches(b, s, parts.to)}

\* C10 -- a well-formed piece-letter text (N, B, R, Q, K) is resolved from
\* the candidate friendly pieces of that type that can reach the destination
\* and match the disambiguation characters: more than one candidate returns
\* AmbiguousAlgebraicNotation(text, piece), none returns
\* InvalidPieceMove(piece), exactly one yields the move from that candidate;
\* `Nf3` from the initial position resolves to g1 -> f3.
\* It is stated for destinations not held by a friendly piece, and "yields
\* the move" is read as: the request is answered with the Move that
\* calculateMove (filter active) returns for the candidate, and with an
\* error when calculateMove returns none or the text marks a capture that
\* the move is not.
C10_PieceLetterResolution ==
    (/\ request.op = "calculateMoveFromAlgebraic"
     /\ isPieceText(request.text)
     /\ ~(/\ board.pieces[pieceTextParts(request.text).to] # Undefined
          /\ getPieceColor(board.pieces[pieceTextParts(request.text).to]) = board.turnColor))
    => LET parts == pieceTextParts(request.text)
           piece == algebraicPieceCharToPieceId(parts.letter,
                                                board.turnColor = PlayerColor.WHITE)
           cands == candidates(board, parts)
       IN /\ Cardinality(cands) > 1 =>
                request.result = Err(AmbiguousAlgebraicNotation(request.text, piece))
          /\ cands = {} => request.result = Err(InvalidPieceMove(piece))
          /\ Cardinality(cands) = 1 =>
                LET from == CHOOSE c \in cands : TRUE
                    r == calculateMove(board, from, parts.to, Undefined, FALSE)
                IN IF r.kind = "ok" /\ (parts.capture => r.move.isCapture)
                   THEN request.result = r
                   ELSE request.result.kind = "error"
          /\ (startFen = INITIAL_FEN /\ board.moves = <<>>
                /\ request.text = <<"N", "f", "3">>) =>
                /\ request.result.kind = "ok"
                /\ request.result.move.from = <<"g", "1">>
                /\ request.result.move.to = <<"f", "3">>

\* ------------------------------------------------------------------- C11
\* The parse of the request has ended: parse() has returned or thrown.
Parsed == Parsing /\ request.parser.status \in {"returned", "thrown"}

\* The tokens resolved one after the other, each against the Position the
\* previous one produced: the Position reached, or "failed" as soon as a
\* token is not resolved to a Move or the Move is not applied.
RECURSIVE replay(_, _)
replay(b, tokens) ==
    IF tokens = <<>> THEN [kind |-> "ok", board |-> b]
    ELSE LET r == calculateMoveFromAlgebraic(b, Head(tokens))
         IN IF r.kind # "ok" THEN [kind |-> "failed"]
            ELSE LET a == applyMove(b, r.move)
                 IN IF a.kind # "ok" THEN [kind |-> "failed"]
                    ELSE replay(a.board, Tail(tokens))

\* A Move of the parser without the comment slot the parser adds.
moveProper(m) == [f \in (DOMAIN m) \ {"comment"} |-> m[f]]

\* The parser has returned the moves of the Position b, and has ended on a
\* Position that differs from b by the comment slots only.
returnedAs(parser, b) ==
    /\ parser.status = "returned"
    /\ Len(parser.board.moves) = Len(b.moves)
    /\ \A i \in 1..Len(b.moves) : moveProper(parser.board.moves[i]) = b.moves[i]
    /\ [parser.board EXCEPT !.moves = b.moves] = b

ScenarioD == movetext(SubSeq(GameOpen, 1, 4))

ScenarioDPlacement ==
    <<"r", "1", "b", "q", "k", "b", "n", "r", "/", "p", "p", "p", "p", "1",
      "p", "p", "p", "/", "2", "n", "5", "/", "4", "p", "3", "/", "4", "P",
      "3", "/", "5", "N", "2", "/", "P", "P", "P", "P", "1", "P", "P", "P",
      "/", "R", "N", "B", "Q", "K", "B", "1", "R">>

\* C11 -- parsePGNMoves on a movetext of numbered move pairs returns one Move
\* per move token, in text order, each resolved against and applied to the
\* Position produced by the previous one; for `1. e4 e5 2. Nf3 Nc6` it
\* returns 4 moves and the final Position's FEN placement is
\* r1bqkbnr/pppp1ppp/2n5/4p3/4P3/5N2/PPPP1PPP/RNBQKB1R.
C11_NumberedPairs ==
    Parsed =>
       /\ \A tokens \in MoveLists :
              request.pgn = movetext(tokens) =>
                 LET r == replay(parseFen(INITIAL_FEN).board, tokens)
                 IN r.kind = "ok" =>
                       /\ Len(request.parser.board.moves) = Len(tokens)
                       /\ returnedAs(request.parser, r.board)
       /\ request.pgn = ScenarioD =>
              /\ request.parser.status = "returned"
              /\ Len(request.parser.board.moves) = 4
              /\ split(boardToFen(request.parser.board), " ")[1] = ScenarioDPlacement

\* Scenario D has been parsed to its end.
C11_Witness ==
    /\ Parsed
    /\ request.pgn = ScenarioD
    /\ request.parser.status = "returned"
    /\ Len(request.parser.board.moves) = 4

\* ------------------------------------------------------------------- C12
\* The castling position of Scenario E: White to move, the white king on
\* e1, a white rook on h1, the white king-side right set.
ScenarioE(b) ==
    /\ b.turnColor = PlayerColor.WHITE
    /\ b.pieces[<<"e", "1">>] = "K"
    /\ b.pieces[<<"h", "1">>] = "R"
    /\ b.canCastle.whiteKingSide

\* A black piece reaches the square under the piece shape rules.
attackedByBlack(b, target) ==
    canBeReached([b EXCEPT !.turnColor = PlayerColor.BLACK], target)

\* What Scenario E expects of the answer `r` to the text O-O on `b`.
scenarioEAnswer(b, r) ==
    /\ (b.pieces[<<"f", "1">>] # Undefined \/ b.pieces[<<"g", "1">>] # Undefined)
          => r = Err(InvalidPieceMove("K"))
    /\ (/\ b.pieces[<<"f", "1">>] = Undefined
        /\ b.pieces[<<"g", "1">>] = Undefined
        /\ attackedByBlack(b, <<"e", "1">>))
          => r.kind # "ok"

\* C12 -- Scenario E: with White to move, the white king on e1, a white rook
\* on h1 and the white king-side right set, calculateMoveFromAlgebraic
\* (position, O-O) returns InvalidPieceMove if f1 or g1 is occupied, by a
\* piece of either colour, and is rejected if the white king is attacked by
\* a black piece while f1 and g1 are empty.
C12_ScenarioE ==
    /\ (Idle /\ ScenarioE(board)) =>
          scenarioEAnswer(board, calculateMoveFromAlgebraic(board, KING_SIDE_CASTLING_STR))
    /\ (/\ request.op = "calculateMoveFromAlgebraic"
        /\ request.text = KING_SIDE_CASTLING_STR
        /\ ScenarioE(board)) => scenarioEAnswer(board, request.result)

\* ------------------------------------------------------------------- C13
AlgebraicMoveErrorTypes ==
    {"notYourTurn", "captureOwnPiece", "invalidPieceMove", "invalidAlgebraicNotation",
     "ambiguousAlgebraicNotation"}

\* C13 -- for every Position and every text, calculateMoveFromAlgebraic
\* returns a Move or one of the AlgebraicMoveError values (NotYourTurn,
\* CaptureOwnPiece, InvalidPieceMove, InvalidAlgebraicNotation,
\* AmbiguousAlgebraicNotation); it never throws, pawn and castling texts whose
\* implied origin square is empty included.
C13_NeverThrows ==
    request.op = "calculateMoveFromAlgebraic" =>
       \/ request.result.kind = "ok"
       \/ /\ request.result.kind = "error"
          /\ request.result.error.type \in AlgebraicMoveErrorTypes

\* ------------------------------------------------------------------ C14
\* The step is a call of applyMove.
isApplyMoveCall == request.op # "applyMove" /\ request'.op = "applyMove"

\* C14 -- applyMove(position, move) fails with the mismatch error whenever
\* the piece on move.from in `position` differs from move.piece, an empty
\* move.from included, and `position` is then left as it was.
C14_MoveDoesNotMatchBoard ==
    [][isApplyMoveCall /\ board.pieces[request'.move.from] # request'.move.piece
         => /\ request'.result = Throw("Piece does not match the move piece")
            /\ board' = board]_vars

\* applyMove has failed on a Move whose origin square is empty on the board.
C14_Witness ==
    /\ request.op = "applyMove"
    /\ board.pieces[request.move.from] = Undefined
    /\ request.result.kind = "throw"

placementAfterTrial(b, s, t, m) ==
    [[b.pieces EXCEPT ![s] = Undefined,
                      ![<<t[1], s[2]>>] = IF m.isEnPassantCapture THEN Undefined ELSE @]
        EXCEPT ![t] = IF m.promotion # Undefined THEN m.promotion ELSE b.pieces[s]]

\* On `placement`, a piece of the other side than b's side to move is
\* accepted by calculateMove, filter ignored, on a move to the square of the
\* king of b's side to move.
opponentReachesKing(b, placement) ==
    \E k \in {p \in Position :
                 placement[p] = (IF b.turnColor = PlayerColor.WHITE THEN "K" ELSE "k")} :
       \E o \in {p \in Position : /\ placement[p] # Undefined
                                   /\ getPieceColor(placement[p]) # b.turnColor} :
          calculateMove([b EXCEPT !.pieces = placement,
                                  !.allowedMoves = <<>>,
                                  !.turnColor = getPieceColor(placement[o])],
                        o, k, Undefined, TRUE).kind = "ok"

\* s -> t is a move of the side to move that calculateMove accepts with the
\* filter ignored and whose trial leaves the mover's king out of reach.
isLegalDestination(b, s, t) ==
    /\ b.pieces[s] # Undefined
    /\ getPieceColor(b.pieces[s]) = b.turnColor
    /\ \E r \in {calculateMove(b, s, t, Undefined, TRUE)} :
          /\ r.kind = "ok"
          /\ ~opponentReachesKing(b, placementAfterTrial(b, s, t, r.move))

\* C16 -- every Position returned by parseFen or applyMove carries the
\* complete legal-destination mapping of its own side to move: it maps s to
\* t exactly when s holds a piece of the side to move, calculateMove accepts
\* s -> t with the filter ignored and the trial move leaves no opposing piece
\* able to reach the mover's king; a square without such a t has no entry.
C16_LegalDestinations ==
    /\ \A s \in DOMAIN board.allowedMoves : board.allowedMoves[s] # {}
    /\ \A s \in Position, t \in Position :
          (s \in DOMAIN board.allowedMoves /\ t \in board.allowedMoves[s])
             <=> isLegalDestination(board, s, t)

\* The king of b's side to move stands on `placement`.
kingStandsOn(b, placement) ==
    \E k \in Position :
        placement[k] = (IF b.turnColor = PlayerColor.WHITE THEN "K" ELSE "k")

\* s -> t is such a move, and the mover's king stands on the trial board.
isLegalDestinationWithKing(b, s, t) ==
    /\ b.pieces[s] # Undefined
    /\ getPieceColor(b.pieces[s]) = b.turnColor
    /\ \E r \in {calculateMove(b, s, t, Undefined, TRUE)} :
          /\ r.kind = "ok"
          /\ \E placement \in {placementAfterTrial(b, s, t, r.move)} :
                /\ kingStandsOn(b, placement)
                /\ ~opponentReachesKing(b, placement)

\* C16 (amended) -- every Position returned by parseFen or applyMove carries
\* the complete legal-destination mapping of its own side to move: it maps s
\* to t exactly when s holds a piece of the side to move, calculateMove
\* accepts s -> t with the filter ignored, the mover's king stands on the
\* board after the trial move and no opposing piece is able to reach it; a
\* square without such a t has no entry.  A side to move without a king has
\* an empty mapping.
C16_LegalDestinationsWithKing ==
    [](/\ \A s \in DOMAIN board.allowedMoves : board.allowedMoves[s] # {}
       /\ \A s \in Position, t \in Position :
             (s \in DOMAIN board.allowedMoves /\ t \in board.allowedMoves[s])
                <=> isLegalDestinationWithKing(board, s, t))

\* applyMove has returned a Position in which a piece of the side to move
\* has no entry although calculateMove accepts a move of it, another piece
\* has an entry, and the king of the side to move is on the board.
C16_Witness ==
    /\ request.op = "drop"
    /\ board.allowedMoves # <<>>
    /\ kingStandsOn(board, board.pieces)
    /\ \E s \in Position \ DOMAIN board.allowedMoves, t \in Position :
          /\ board.pieces[s] # Undefined
          /\ getPieceColor(board.pieces[s]) = board.turnColor
          /\ calculateMove(board, s, t, Undefined, TRUE).kind = "ok"

\* ------------------------------------------------------------------ C17
\* The movetexts with a variation after the first k tokens: what is parsed,
\* and what is left of it when the variation is taken out.
VariationCases ==
    {c \in MoveLists \X (0..MaxTokens) \X Variations : c[2] <= Len(c[1])}

\* C17 -- every token between a `(` and its matching `)` is skipped: a PGN
\* with a parenthesised variation yields the move list and the final Position
\* of the same PGN without the variation, wherever the variation stands in
\* the movetext.
C17_VariationsSkipped ==
    Parsed =>
       \A c \in VariationCases :
           request.pgn = movetextWith(c[1], c[2], c[3]) =>
              \E plain \in {parseFrom(movetext(c[1]), parserStart(movetext(c[1])))} :
                 /\ parseResult(request.parser) = parseResult(plain)
                 /\ request.parser.board = plain.board

\* ------------------------------------------------------------------ C18
\* The parser has replayed `tokens` from the Position parseFen(fen) returns.
replayedFrom(fen, tokens) ==
    \E r \in {replay(parseFen(fen).board, tokens)} :
        r.kind = "ok" /\ returnedAs(request.parser, r.board)

\* C18 -- when the tag section of the PGN holds an `FEN` tag, parsePGNMoves
\* replays the movetext from parseFen of the value of that tag; when there is
\* no `FEN` tag it replays from the canonical initial position.
C18_FenTagSeedsTheStart ==
    Parsed =>
       /\ \A c \in FenGames :
              request.pgn = fenTagged(c[1], movetext(c[2])) => replayedFrom(c[1], c[2])
       /\ \A tokens \in MoveLists :
              request.pgn = eventTagged(movetext(tokens))
                 => replayedFrom(INITIAL_FEN, tokens)

\* ------------------------------------------------------------------ C19
\* C19 -- parsePGNMoves fails with an error, and returns no move list,
\* whenever the place where a move number is expected holds a token with a
\* character that is not a digit, such as a move token that follows a
\* completed White/Black pair without a move number.
C19_BadMoveNumberFails ==
    Parsed /\ request.pgn \in BadNumberTexts
       => parseResult(request.parser).kind = "throw"

\* ------------------------------------------------------------------ C20
\* C20 -- parsePGNMoves fails with an error whenever the end of the input is
\* reached with a `(` variation still open or a `{` comment still unclosed,
\* a `{` comment that directly follows a move token included.
C20_OpenScopeFails ==
    Parsed /\ request.pgn \in UnclosedTexts
       => parseResult(request.parser).kind = "throw"

\* ------------------------------------------------------------------ C21
\* C21 -- calculateMove checks its error conditions in a fixed order for a
\* non-empty `from`: a piece of the side not to move returns NotYourTurn
\* whatever `to` holds; otherwise a piece of the same colour on `to`
\* (to = from included) returns CaptureOwnPiece, even with the filter active
\* and `to` not a legal destination; only then InvalidPieceMove is
\* considered.
C21_ErrorOrder ==
    request.op = "calculateMove" =>
       LET piece == board.pieces[request.from]
           targetPiece == board.pieces[request.to]
           otherSide == getPieceColor(piece) # board.turnColor
           ownTarget == /\ targetPiece # Undefined
                        /\ getPieceColor(targetPiece) = getPieceColor(piece)
       IN /\ otherSide => request.result = Err(NotYourTurn)
          /\ ~otherSide /\ ownTarget => request.result = Err(CaptureOwnPiece)
          /\ ~otherSide /\ ~ownTarget
                => request.result = Err(InvalidPieceMove(piece))

\* A piece of the side to move was asked to move onto a square that holds a
\* piece of its own colour and is no legal destination: CaptureOwnPiece.
C21_Witness ==
    /\ request.op = "calculateMove"
    /\ request.from # request.to
    /\ getPieceColor(board.pieces[request.from]) = board.turnColor
    /\ board.pieces[request.to] # Undefined
    /\ ~isAllowed(board, request.from, request.to)
    /\ request.result = Err(CaptureOwnPiece)

\* ------------------------------------------------------------------ C22
\* The step applies a move to the board: onMove, boardInfo = applyMove(...).
isApplied == request'.op = "drop" /\ board'.moves = Append(board.moves, lastMove')

\* C22 -- every successful applyMove flips the side to move, and the
\* full-move counter of the result is the counter of the input plus one when
\* Black moved and the counter of the input when White moved; so the side to
\* move alternates along any sequence of applyMove calls.
C22_TurnAndFullMoveCounter ==
    [][isApplied =>
          /\ board'.turnColor # board.turnColor
          /\ board'.turnColor \in {PlayerColor.WHITE, PlayerColor.BLACK}
          /\ lastMove'.turn = board.turnColor
          /\ board'.fullMoveNumber
                = board.fullMoveNumber
                    + (IF lastMove'.turn = PlayerColor.BLACK THEN 1 ELSE 0)]_vars

\* White has moved and Black has answered: the counter went up once and the
\* side to move is White again.
C22_Witness ==
    /\ request.op = "drop"
    /\ Len(board.moves) = 2
    /\ board.moves[1].turn = PlayerColor.WHITE
    /\ board.moves[2].turn = PlayerColor.BLACK
    /\ board.turnColor = PlayerColor.WHITE
    /\ board.fullMoveNumber = 2

\* ------------------------------------------------------------------ C23
\* The half-move clock `after` is what the claim gives for `move` applied to
\* a Position whose clock is `before`.
clockFollows(before, move, after) ==
    after = IF isPawn(move.piece) \/ move.isCapture THEN 0 ELSE before + 1

\* C23 -- after every successful applyMove the half-move clock of the result
\* is 0 if the move was a pawn move or had isCapture set, and the clock of
\* the input plus one otherwise, castling moves included.
C23_HalfMoveClock ==
    [][/\ isApplied
          => clockFollows(board.halfMoveClock, lastMove', board'.halfMoveClock)
       /\ isApplyMoveCall /\ request'.result.kind = "ok"
          => clockFollows(board.halfMoveClock, request'.move,
                          request'.result.board.halfMoveClock)]_vars

\* ------------------------------------------------------------------ C24
\* The files strictly between the king on e and the rook of that wing.
filesToRook(side) == IF side = "king-side" THEN {"f", "g"} ELSE {"b", "c", "d"}

\* The castling right of the colour `white` on the wing `side`.
rightOf(castling, white, side) ==
    IF side = "king-side"
    THEN (IF white THEN castling.whiteKingSide ELSE castling.blackKingSide)
    ELSE (IF white THEN castling.whiteQueenSide ELSE castling.blackQueenSide)

\* What the claim asks of a castling Move `m` returned on the Position b.
castlingIsInOrder(b, m) ==
    LET white == isWhite(m.piece)
        rank == IF white THEN InitialRank.white ELSE InitialRank.black
    IN /\ m.from = <<"e", rank>>
       /\ m.to = <<IF m.castling = "king-side" THEN "g" ELSE "c", rank>>
       /\ rightOf(b.canCastle, white, m.castling)
       /\ \A f \in filesToRook(m.castling) : b.pieces[<<f, rank>>] = Undefined

\* C24 -- calculateMove returns a Move with a castling side only when the
\* king stands on file e of its initial rank, the destination is g or c on
\* that rank, the matching CastlingRights flag is set, and every square
\* strictly between the square of the king and the original square of the
\* castling rook (f, g king-side; b, c, d queen-side) is empty.
C24_CastlingShape ==
    \A from \in {s \in Position : board.pieces[s] \in {"K", "k"}} :
       \A to \in Position, ignoreAllowed \in BOOLEAN :
          \E r \in {calculateMove(board, from, to, Undefined, ignoreAllowed)} :
             r.kind = "ok" /\ r.move.castling # Undefined
                => castlingIsInOrder(board, r.move)

\* ------------------------------------------------------------------ C25
\* With the king of b's side to move taken from `from` and put on `square`,
\* an opposing piece is accepted on a move to it.
attackedWithKingOn(b, from, square) ==
    opponentReachesKing(b, [[b.pieces EXCEPT ![from] = Undefined]
                               EXCEPT ![square] = kingOf(b.turnColor)])

\* The legal-destination mapping of b lists the castling destination on
\* file `toFile` for the king of the side to move.
listsCastling(b, toFile) ==
    LET rank == IF b.turnColor = PlayerColor.WHITE THEN InitialRank.white
                                                   ELSE InitialRank.black
    IN /\ b.pieces[<<"e", rank>>] = kingOf(b.turnColor)
       /\ isAllowed(b, <<"e", rank>>, <<toFile, rank>>)
       /\ calculateMove(b, <<"e", rank>>, <<toFile, rank>>, Undefined, FALSE)
             .move.castling # Undefined

\* The king on e, the square it crosses towards `toFile` and the square it
\* lands on are out of reach of the opposing pieces.
castlesOutOfReach(b, toFile) ==
    LET rank == IF b.turnColor = PlayerColor.WHITE THEN InitialRank.white
                                                   ELSE InitialRank.black
        from == <<"e", rank>>
    IN /\ ~attackedWithKingOn(b, from, from)
       /\ ~attackedWithKingOn(b, from, <<IF toFile = "g" THEN "f" ELSE "d", rank>>)
       /\ ~attackedWithKingOn(b, from, <<toFile, rank>>)

\* C25 -- the legal-destination mapping of a Position never lists a castling
\* destination (king e -> g or e -> c on its initial rank) when the king is
\* attacked, or when the square the king crosses (f or d) or the square it
\* lands on is attacked by an opposing piece.
C25_NoCastlingThroughAttack ==
    \A toFile \in {"g", "c"} :
        listsCastling(board, toFile) => castlesOutOfReach(board, toFile)

\* ------------------------------------------------------------------ C26
\* The back rank of the colour `white` after a castle on the wing `side`:
\* the king and the rook on their new files, their old squares empty.
hasCastled(pieces, white, side) ==
    LET rank == IF white THEN "1" ELSE "8"
        king == IF white THEN "K" ELSE "k"
        rook == IF white THEN "R" ELSE "r"
    IN /\ pieces[<<"e", rank>>] = Undefined
       /\ IF side = "king-side"
          THEN /\ pieces[<<"g", rank>>] = king
               /\ pieces[<<"f", rank>>] = rook
               /\ pieces[<<"h", rank>>] = Undefined
          ELSE /\ pieces[<<"c", rank>>] = king
               /\ pieces[<<"d", rank>>] = rook
               /\ pieces[<<"a", rank>>] = Undefined

\* Both rights of the mover are cleared, those of the opponent are kept.
rightsAfterCastle(before, after, white) ==
    IF white
    THEN /\ ~after.whiteKingSide /\ ~after.whiteQueenSide
         /\ after.blackKingSide = before.blackKingSide
         /\ after.blackQueenSide = before.blackQueenSide
    ELSE /\ ~after.blackKingSide /\ ~after.blackQueenSide
         /\ after.whiteKingSide = before.whiteKingSide
         /\ after.whiteQueenSide = before.whiteQueenSide

\* C26 -- applying a castling move relocates both pieces and empties both
\* origins: after a king-side castle the king is on g and the rook on f of
\* the back rank of the mover with e and h empty; after a queen-side castle
\* the king is on c and the rook on d with e and a empty; both castling
\* rights of the mover are cleared and those of the opponent are unchanged.
C26_CastlingApplied ==
    [][isApplied /\ lastMove'.castling # Undefined
          => /\ hasCastled(board'.pieces, lastMove'.turn = PlayerColor.WHITE,
                           lastMove'.castling)
             /\ rightsAfterCastle(board.canCastle, board'.canCastle,
                                  lastMove'.turn = PlayerColor.WHITE)]_vars

\* Black has castled queen-side while White still holds a castling right.
C26_Witness ==
    /\ request.op = "drop"
    /\ lastMove.castling = "queen-side"
    /\ lastMove.turn = PlayerColor.BLACK
    /\ board.pieces[<<"c", "8">>] = "k"
    /\ board.pieces[<<"d", "8">>] = "r"
    /\ board.canCastle.whiteKingSide

\* ------------------------------------------------------------------ C27
\* The move m takes a pawn diagonally onto the en-passant target of b.
isEnPassantOn(b, m) ==
    /\ isPawn(m.piece)
    /\ b.enPassantTarget # Null
    /\ m.to = b.enPassantTarget
    /\ m.from[1] # m.to[1]

\* C27 -- applying an en-passant capture moves the capturing pawn to the
\* en-passant target square and removes the opposing pawn from the square on
\* the destination file and the origin rank; no other square changes, and
\* the Move has isCapture and isEnPassantCapture set.
C27_EnPassantApplied ==
    [][isApplied /\ isEnPassantOn(board, lastMove')
          => LET m == lastMove'
                 taken == <<m.to[1], m.from[2]>>
             IN /\ m.isCapture /\ m.isEnPassantCapture
                /\ isPawn(board.pieces[taken])
                /\ getPieceColor(board.pieces[taken]) # m.turn
                /\ board'.pieces[m.to] = m.piece
                /\ board'.pieces[m.from] = Undefined
                /\ board'.pieces[taken] = Undefined
                /\ \A s \in Position \ {m.from, m.to, taken} :
                       board'.pieces[s] = board.pieces[s]]_vars

\* A pawn has just been taken en passant.
C27_Witness ==
    /\ request.op = "drop"
    /\ lastMove.isEnPassantCapture
    /\ lastMove.isCapture
    /\ board.pieces[lastMove.to] = lastMove.piece
    /\ board.pieces[<<lastMove.to[1], lastMove.from[2]>>] = Undefined

\* ------------------------------------------------------------------ C28
\* The square `steps` ranks ahead of `from`, seen from the pawn on it.
ahead(b, from, steps) ==
    <<from[1], CHOOSE r \in RankSet :
                  RankIndexOf[r] = rankIndex(from)
                                     + (IF isWhite(b.pieces[from]) THEN steps ELSE -steps)>>

\* from -> to has one of the three pawn shapes on the Position b.
isPawnShape(b, from, to) ==
    LET white == isWhite(b.pieces[from])
        direction == IF white THEN 1 ELSE -1
        dFile == fileIndex(to) - fileIndex(from)
        dRank == rankIndex(to) - rankIndex(from)
    IN \/ dFile = 0 /\ dRank = direction /\ b.pieces[to] = Undefined
       \/ /\ dFile = 0 /\ dRank = 2 * direction
          /\ from[2] = (IF white THEN "2" ELSE "7")
          /\ b.pieces[ahead(b, from, 1)] = Undefined
          /\ b.pieces[to] = Undefined
       \/ /\ dFile \in {1, -1} /\ dRank = direction
          /\ (b.pieces[to] # Undefined \/ b.enPassantTarget = to)

\* The pawns of the side to move.
pawnsToMove(b) ==
    {s \in Position : /\ b.pieces[s] # Undefined
                      /\ isPawn(b.pieces[s])
                      /\ getPieceColor(b.pieces[s]) = b.turnColor}

\* calculateMove, filter ignored, accepts from -> to exactly when it has a
\* pawn shape, and answers InvalidPieceMove when it has none.
pawnAnswer(b, from, to) ==
    \E r \in {calculateMove(b, from, to, Undefined, TRUE)} :
        /\ r.kind = "ok" <=> isPawnShape(b, from, to)
        /\ r.kind # "ok" => r = Err(InvalidPieceMove(b.pieces[from]))

\* C28 -- calculateMove, filter ignored, accepts a pawn move exactly in
\* three shapes: one square forward onto an empty square; two squares forward
\* from rank 2 (White) or rank 7 (Black) with the crossed square and the
\* destination empty; one square diagonally forward onto an occupied square
\* or onto the en-passant target; every other pawn from/to pair returns
\* InvalidPieceMove.
C28_PawnShapes ==
    \A from \in pawnsToMove(board), to \in Position : pawnAnswer(board, from, to)

\* C28 (amended) -- for a pawn of the side to move and a destination that
\* holds no piece of the pawn's colour, calculateMove, filter ignored,
\* accepts the move exactly in those three shapes, the diagonal one onto a
\* square that holds an opposing piece or is the en-passant target, and every
\* other such pair returns InvalidPieceMove; a destination that holds a
\* piece of the pawn's colour returns CaptureOwnPiece.
C28_PawnShapesOffOwnPieces ==
    [](\A from \in pawnsToMove(board), to \in Position :
          IF /\ board.pieces[to] # Undefined
             /\ getPieceColor(board.pieces[to]) = board.turnColor
          THEN calculateMove(board, from, to, Undefined, TRUE) = Err(CaptureOwnPiece)
          ELSE pawnAnswer(board, from, to))

\* A pawn of the side to move is accepted on the en-passant target, another
\* pawn move is answered with InvalidPieceMove.
C28_Witness ==
    /\ board.enPassantTarget # Null
    /\ \E from \in pawnsToMove(board) :
          /\ calculateMove(board, from, board.enPassantTarget, Undefined, TRUE).kind = "ok"
          /\ calculateMove(board, from, ahead(board, from, 2), Undefined, TRUE)
                = Err(InvalidPieceMove(board.pieces[from]))

\* ------------------------------------------------------------------ C29
\* C29 -- every Move returned by calculateMoveFromAlgebraic, for a castling
\* text, a piece-letter text and a pawn text alike, is check-safe: its
\* (from, to) pair is in the legal-destination mapping of the Position, so
\* applying it never leaves the king of the mover attacked.
C29_AlgebraicMovesAreLegal ==
    request.op = "calculateMoveFromAlgebraic" /\ request.result.kind = "ok"
       => isAllowed(board, request.result.move.from, request.result.move.to)
\* C30 -- calculateMoveFromAlgebraic returns InvalidAlgebraicNotation(text)
\* whenever the text carries the capture mark `x` and the move it resolves
\* to is not a capture, for piece-letter texts and for pawn texts (a pawn
\* text whose capture file is the destination file among them), and whenever
\* characters are left after the destination, the promotion and the `+`/`#`.
hasCaptureMark(text) == \E i \in 1..Len(text) : text[i] = ALGEBRAIC_CAPTURE_CHAR

\* The text without its capture mark: a pawn text <file>x<file><rank>... of
\* one file loses the mark and the capture file, any other text the mark.
withoutCaptureMark(text) ==
    LET i == CHOOSE k \in 1..Len(text) : text[k] = ALGEBRAIC_CAPTURE_CHAR
    IN IF i = 2 /\ Len(text) >= 3 /\ text[1] = text[3]
       THEN SubSeq(text, 3, Len(text))
       ELSE SubSeq(text, 1, i - 1) \o SubSeq(text, i + 1, Len(text))

resolvesToNonCapture(b, text) ==
    /\ hasCaptureMark(text)
    /\ \E r \in {calculateMoveFromAlgebraic(b, withoutCaptureMark(text))} :
          r.kind = "ok" /\ ~r.move.isCapture

C30_CaptureMarkAndLeftovers ==
    request.op = "calculateMoveFromAlgebraic"
       => /\ (resolvesToNonCapture(board, request.text)
                 => request.result = Err(InvalidAlgebraicNotation(request.text)))
          /\ (request.text \in LeftoverTexts
                 => request.result = Err(InvalidAlgebraicNotation(request.text)))

\* The same for the piece-letter texts alone.
C30_PieceLetterTexts ==
    (request.op = "calculateMoveFromAlgebraic"
       /\ request.text[1] \in {"N", "B", "R", "Q", "K"})
       => /\ (resolvesToNonCapture(board, request.text)
                 => request.result = Err(InvalidAlgebraicNotation(request.text)))
          /\ (request.text \in LeftoverTexts
                 => request.result = Err(InvalidAlgebraicNotation(request.text)))

\* The leftover characters alone, for every kind of text.
C30_LeftoversRejected ==
    (request.op = "calculateMoveFromAlgebraic" /\ request.text \in LeftoverTexts)
       => request.result = Err(InvalidAlgebraicNotation(request.text))
\* C31 -- parseFen fails for every placement field in which some rank's
\* piece letters and digit gaps do not sum to exactly 8 files, or that holds
\* a character that is neither a piece letter nor a digit 1-8.
isGapDigit(c) == c \in {"1", "2", "3", "4", "5", "6", "7", "8"}

RECURSIVE filesOf(_)
filesOf(row) ==
    IF row = <<>> THEN 0
    ELSE (IF isGapDigit(Head(row)) THEN DigitValue[Head(row)] ELSE 1) + filesOf(Tail(row))

isRankInOrder(row) ==
    /\ \A i \in 1..Len(row) : isPiece(row[i]) \/ isGapDigit(row[i])
    /\ filesOf(row) = 8

placementOf(fen) == split(split(fen, " ")[1], "/")

hasRankOutOfOrder(fen) ==
    \E k \in 1..Len(placementOf(fen)) : ~isRankInOrder(placementOf(fen)[k])

C31_BadPlacementFails ==
    (request.op = "parseFen" /\ hasRankOutOfOrder(request.text))
       => request.result.kind = "throw"

\* The part of it that holds: a character that is no piece letter and no
\* digit, and a piece letter beyond the eighth file.
RECURSIVE hasPieceBeyondH(_, _)
hasPieceBeyondH(row, colIndex) ==
    IF row = <<>> THEN FALSE
    ELSE IF isNumberChar(Head(row))
    THEN hasPieceBeyondH(Tail(row), colIndex + DigitValue[Head(row)])
    ELSE colIndex > 7 \/ hasPieceBeyondH(Tail(row), colIndex + 1)

C31_UnknownLetterFails ==
    (request.op = "parseFen"
       /\ \E k \in 1..Len(placementOf(request.text)) :
             \/ \E i \in 1..Len(placementOf(request.text)[k]) :
                   /\ ~isPiece(placementOf(request.text)[k][i])
                   /\ ~isNumberChar(placementOf(request.text)[k][i])
             \/ hasPieceBeyondH(placementOf(request.text)[k], 0))
       => request.result.kind = "throw"
\* C32 -- for every non-castling Move of either colour moveToAlgebraic
\* renders the piece letter out of N, B, R, Q, K (nothing for a pawn), the
\* origin file for pawn captures only, `x` for captures, the destination
\* square and `=` with the upper-case promotion letter for promotions;
\* castling renders as O-O or O-O-O.
renderedAsClaimed(m) ==
    IF m.castling # Undefined
    THEN (IF m.castling = "king-side" THEN KING_SIDE_CASTLING_STR
                                      ELSE QUEEN_SIDE_CASTLING_STR)
    ELSE (IF isPawn(m.piece) THEN <<>> ELSE <<ToUpper[m.piece]>>)
         \o (IF isPawn(m.piece) /\ m.isCapture THEN <<m.from[1]>> ELSE <<>>)
         \o (IF m.isCapture THEN <<"x">> ELSE <<>>)
         \o m.to
         \o (IF m.promotion # Undefined THEN <<"=", ToUpper[m.promotion]>> ELSE <<>>)

C32_Rendering ==
    request.op = "drop"
       => /\ request.result.move.algebraic = renderedAsClaimed(request.result.move)
          /\ moveToAlgebraic(request.result.move) = renderedAsClaimed(request.result.move)

\* The same for the moves of White, and for the pawn and castling moves of
\* Black.
C32_RenderingWhite ==
    (request.op = "drop"
       /\ (request.result.move.turn = PlayerColor.WHITE
              \/ isPawn(request.result.move.piece)
              \/ request.result.move.castling # Undefined))
       => /\ request.result.move.algebraic = renderedAsClaimed(request.result.move)
          /\ moveToAlgebraic(request.result.move) = renderedAsClaimed(request.result.move)
\* C33 -- calculateMove sets Move.promotion to the mover's queen when a pawn
\* reaches the last rank and no promotion choice is given, to the choice
\* when one is given, and leaves it unset for every move that is not a pawn
\* reaching the last rank, whatever the choice.
reachesLastRank(m) ==
    \/ m.piece = "P" /\ m.to[2] = "8"
    \/ m.piece = "p" /\ m.to[2] = "1"

C33_Promotion ==
    (request.op = "calculateMove" /\ request.result.kind = "ok")
       => request.result.move.promotion =
             (IF ~reachesLastRank(request.result.move) THEN Undefined
              ELSE IF request.promotionPiece # Undefined THEN request.promotionPiece
              ELSE IF request.result.move.turn = PlayerColor.WHITE THEN "Q" ELSE "q")

\* A pawn reaches the last rank with a choice, and another move is asked for
\* with a choice.
C33_Witness ==
    /\ request.op = "calculateMove"
    /\ request.result.kind = "ok"
    /\ request.promotionPiece # Undefined
    /\ reachesLastRank(request.result.move)

C33_WitnessOther ==
    /\ request.op = "calculateMove"
    /\ request.result.kind = "ok"
    /\ request.promotionPiece # Undefined
    /\ ~reachesLastRank(request.result.move)
\* C34 -- a `{...}` comment that follows a move token, after optional white
\* space, is attached, trimmed, as the comment of exactly that Move; a move
\* with no comment behind it has none; comments never change which moves
\* are applied.
withCommentAt(moves, k, comment) ==
    [i \in 1..Len(moves) |-> IF i = k THEN [moves[i] EXCEPT !.comment = comment]
                                     ELSE moves[i]]

commentIsAttached(c) ==
    \E plain \in {parseFrom(movetext(c[1]), parserStart(movetext(c[1])))} :
        plain.status = "returned"
           => /\ request.parser.status = "returned"
              /\ request.parser.board.moves = withCommentAt(plain.board.moves, c[2], c[4])

C34_CommentsAttached ==
    Parsed => \A c \in CommentCases : request.pgn = c[3] => commentIsAttached(c)

\* The same for one comment that stands after white space.
C34_OneSpacedComment ==
    Parsed =>
       \A c \in CommentCases :
           (/\ request.pgn = c[3]
            /\ c[3] # movetextGlued(c[1], c[2])
            /\ c[4] # <<"a">>)
              => commentIsAttached(c)
\* C35 -- over applyMove calls with moves calculateMove returned the number
\* of pieces of each colour never grows; a castling move is accepted only
\* with a rook of the mover on the original rook square of the wing, so
\* castling never places a rook that was not on the board.
piecesOf(pieces, set) == Cardinality({s \in Position : pieces[s] \in set})

rookSquare(m) ==
    <<IF m.castling = "king-side" THEN "h" ELSE "a", m.from[2]>>

C35_PieceCounts ==
    [][isApplied =>
          /\ piecesOf(board'.pieces, WhitePieces) <= piecesOf(board.pieces, WhitePieces)
          /\ piecesOf(board'.pieces, BlackPieces) <= piecesOf(board.pieces, BlackPieces)
          /\ (lastMove'.castling # Undefined
                 => board.pieces[rookSquare(lastMove')]
                       = (IF lastMove'.turn = PlayerColor.WHITE THEN "R" ELSE "r"))]_vars
\* C36 -- in every Position reached from parseFen(INITIAL_FEN) by moves that
\* calculateMove returns with the legality filter active, each colour has
\* exactly one king: no sequence of filtered moves captures or removes a
\* king.
C36_OneKingEach ==
    startFen = INITIAL_FEN
       => /\ piecesOf(board.pieces, {"K"}) = 1
          /\ piecesOf(board.pieces, {"k"}) = 1
\* C37 -- a Move returned by calculateMoveFromAlgebraic for a pawn text has
\* its promotion set if and only if the pawn arrives on its last rank, and
\* the promotion piece has the mover's colour; so applying it never leaves a
\* pawn on the last rank and never turns a pawn into another piece on an
\* earlier rank.
isPawnAnswer ==
    /\ request.op = "calculateMoveFromAlgebraic"
    /\ request.result.kind = "ok"
    /\ isPawn(request.result.move.piece)

C37_PawnTextPromotion ==
    isPawnAnswer =>
       /\ (request.result.move.promotion # Undefined) = reachesLastRank(request.result.move)
       /\ request.result.move.promotion # Undefined
             => getPieceColor(request.result.move.promotion) = request.result.move.turn
       /\ \E a \in {applyMove(board, request.result.move)} :
             a.kind = "ok"
                => (a.board.pieces[request.result.move.to] = request.result.move.piece)
                      = ~reachesLastRank(request.result.move)

\* The colour of the promotion piece alone.
C37_PromotionColour ==
    (isPawnAnswer /\ request.result.move.promotion # Undefined)
       => getPieceColor(request.result.move.promotion) = request.result.move.turn
\* A pawn text without promotion is answered with a Move onto the last rank.
C37_PawnStaysPawn ==
    /\ isPawnAnswer
    /\ reachesLastRank(request.result.move)
    /\ request.result.move.promotion = Undefined
\* C38 -- when calculateMoveFromAlgebraic succeeds on O-O or O-O-O, with or
\* without `+` / `#`, the Move is a king move with castling set to king-side
\* or queen-side respectively: a castling text never resolves to a move of
\* another piece standing on e1 / e8, nor to a move that is no castle.
isCastlingText(text, str) ==
    \/ text = str
    \/ isSuffixed(text, str) /\ isCheckOrMate(text[Len(text)])

castlingAnswer(side) ==
    /\ request.result.move.piece \in {"K", "k"}
    /\ request.result.move.castling = side

C38_CastlingTextCastles ==
    (request.op = "calculateMoveFromAlgebraic" /\ request.result.kind = "ok")
       => /\ isCastlingText(request.text, KING_SIDE_CASTLING_STR)
                => castlingAnswer("king-side")
          /\ isCastlingText(request.text, QUEEN_SIDE_CASTLING_STR)
                => castlingAnswer("queen-side")

\* C39 -- every text that validateFen accepts is parsed by parseFen without
\* failure: the FEN input widget, which hands a text on only after
\* validateFen has returned true, never meets an error of parseFen.
C39_ValidatedFenParses ==
    /\ (request.op = "parseFen" /\ validateFen(request.text))
          => request.result.kind = "ok"
    /\ (request.op = "debouncedValidate" /\ request.isValid)
          => request.result.kind # "throw"

\* C39 -- the part that holds: a text validateFen accepts has eight ranks,
\* so parseFen does not fail on the number of ranks.
C39_ValidatedHasEightRanks ==
    (request.op = "parseFen" /\ validateFen(request.text)
        /\ request.result.kind = "throw")
       => request.result.message # "Invalid FEN string: must contain exactly 8 rows"

\* C40 -- parsePGNMoves terminates on every finite input: the cursor offset
\* never decreases and never exceeds the length of the input, and every pass
\* through the main loop consumes at least one character, ends the parse, or
\* fails.  The characters left, Len(pgn) - offset, are then a bound on the
\* passes still to come, and the statements after the loop return or throw.
cursorInText == request.parser.offset \in 0 .. Len(request.pgn)

\* `st` is the parser after a pass that began in `from`.
passAdvances(from, st) ==
    /\ st.offset >= from.offset
    /\ st.offset <= Len(request.pgn)
    /\ st.status \in {"loop", "exit", "thrown"}
    /\ st.status = "loop" => st.offset > from.offset

\* The pass the loop takes next from the state it is in.
nextPass ==
    loopBody(request.pgn, request.parser, request.pgn[request.parser.offset + 1])

parserStands ==
    /\ cursorInText
    /\ inLoop(request.pgn, request.parser) => passAdvances(request.parser, nextPass)
    /\ atExit(request.pgn, request.parser)
          => loopExit(request.parser).status \in {"returned", "thrown"}

parserStep ==
    /\ request'.pgn = request.pgn
    /\ request'.parser # request.parser
    /\ request'.parser.offset >= request.parser.offset
    /\ inLoop(request.pgn, request.parser)
          => passAdvances(request.parser, request'.parser)

C40_ParseTerminates ==
    /\ [](Parsing => parserStands)
    /\ [][(Parsing /\ request'.op = "parsePGNMoves") => parserStep]_vars

\* C40 -- a parse of several passes has come to its return: moves were read
\* and the cursor stands at the end of a text of more than one move.
C40_Witness ==
    /\ Parsed
    /\ request.parser.status = "returned"
    /\ Len(request.parser.board.moves) >= 2
    /\ request.parser.offset = Len(request.pgn)

\* C40 -- a parse has come to a throw before the end of its text.
C40_WitnessThrown ==
    /\ Parsed
    /\ request.parser.status = "thrown"
    /\ request.parser.offset < Len(request.pgn)
====
